---- MODULE Spec2Model ----
(***************************************************************************)
(* Model of the fbxcel FBX binary codec: the binary writer (node headers,  *)
(* attributes, back-patching, footer) writing into an in-memory seekable   *)
(* sink, and the pull parser / attribute reader / tree loader reading the  *)
(* produced bytes back.                                                    *)
(*                                                                         *)
(* Bytes are naturals 0..255, byte strings are sequences of bytes, sink    *)
(* positions are 0-based.  Integer attribute values are integers; f32/f64  *)
(* values are represented by their IEEE bit pattern written most           *)
(* significant byte first (so to_bits().to_le_bytes() reverses it).        *)
(***************************************************************************)
EXTENDS Integers, Sequences, FiniteSets, TLC

\* ------------------------------------------------------------------------
\* Bounds of the model
\* ------------------------------------------------------------------------
\* Successful new_node calls in one run of the writer.
MaxNodes == 2
\* Append calls in one run of the writer.
MaxAttrs == 2
\* Failed calls (rejected node name, failing iterator, failing sink) in one run.
MaxFailures == 1
\* Nodes and attributes of a tree handed to write_tree.
MaxTreeNodes == 2
MaxTreeAttrs == 1
\* Longest node name written in front of a footer that is read back.
MaxPadName == 15
\* Length of the source of a position reader, and calls made on the reader.
SourceLen == 12
MaxReaderCalls == 3

\* ------------------------------------------------------------------------
\* Byte helpers
\* ------------------------------------------------------------------------
Max(a, b) == IF a >= b THEN a ELSE b

Zeros(n) == [i \in 1..n |-> 0]

Rev(s) == [i \in 1..Len(s) |-> s[Len(s) + 1 - i]]

\* to_le_bytes of a (two's complement) integer of w bytes.
RECURSIVE LEBytes(_, _)
LEBytes(n, w) == IF w = 0 THEN <<>> ELSE <<n % 256>> \o LEBytes(n \div 256, w - 1)

\* from_le_bytes, unsigned.
RECURSIVE ULE(_)
ULE(bs) == IF bs = <<>> THEN 0 ELSE Head(bs) + 256 * ULE(Tail(bs))

\* from_le_bytes, signed (two's complement).
RECURSIVE SLE(_)
SLE(bs) ==
    IF Len(bs) = 1 THEN (IF bs[1] >= 128 THEN bs[1] - 256 ELSE bs[1])
    ELSE Head(bs) + 256 * SLE(Tail(bs))

\* Bytes p .. p+n-1 (0-based) of s; shorter when s ends before.
Slice(s, p, n) == SubSeq(s, p + 1, IF p + n <= Len(s) THEN p + n ELSE Len(s))

\* io::Cursor<Vec<u8>>::write at position p: overwrites, extends at the end.
WriteAt(s, p, bs) ==
    [i \in 1..Max(Len(s), p + Len(bs)) |->
        IF i > p /\ i <= p + Len(bs) THEN bs[i - p]
        ELSE IF i <= Len(s) THEN s[i] ELSE 0]

RECURSIVE Flatten(_)
Flatten(ss) == IF ss = <<>> THEN <<>> ELSE Head(ss) \o Flatten(Tail(ss))


\* ------------------------------------------------------------------------
\* Low-level records
\* ------------------------------------------------------------------------
\* b"Kaydara FBX Binary  \x00\x1a\x00"
MAGIC ==
    <<75, 97, 121, 100, 97, 114, 97, 32, 70, 66, 88, 32, 66, 105, 110, 97,
      114, 121, 32, 32, 0, 26, 0>>

MAGIC_LEN == 23

\* FbxVersion::V7_4 and FbxVersion::V7_5
V7_4 == 7400
V7_5 == 7500

AttributeTypes ==
    {"Bool", "I16", "I32", "I64", "F32", "F64",
     "ArrBool", "ArrI32", "ArrI64", "ArrF32", "ArrF64", "Binary", "String"}

\* AttributeType::type_code
type_code(ty) ==
    CASE ty = "Bool" -> 67        \* 'C'
      [] ty = "I16" -> 89         \* 'Y'
      [] ty = "I32" -> 73         \* 'I'
      [] ty = "I64" -> 76         \* 'L'
      [] ty = "F32" -> 70         \* 'F'
      [] ty = "F64" -> 68         \* 'D'
      [] ty = "ArrBool" -> 98     \* 'b'
      [] ty = "ArrI32" -> 105     \* 'i'
      [] ty = "ArrI64" -> 108     \* 'l'
      [] ty = "ArrF32" -> 102     \* 'f'
      [] ty = "ArrF64" -> 100     \* 'd'
      [] ty = "Binary" -> 82      \* 'R'
      [] ty = "String" -> 83      \* 'S'

\* AttributeType::from_type_code
from_type_code(code) ==
    IF \E ty \in AttributeTypes : type_code(ty) = code
    THEN CHOOSE ty \in AttributeTypes : type_code(ty) = code
    ELSE "InvalidAttributeTypeCode"

\* ArrayAttributeEncoding::to_u32
to_u32(encoding) == IF encoding = "Direct" THEN 0 ELSE 1

\* ArrayAttributeEncoding::from_u32
from_u32(v) ==
    IF v = 0 THEN "Direct" ELSE IF v = 1 THEN "Zlib" ELSE "InvalidArrayAttributeEncoding"

\* NodeHeader::node_end
node_end ==
    [end_offset |-> 0, num_attributes |-> 0, bytelen_attributes |-> 0, bytelen_name |-> 0]

\* NodeHeader::is_node_end
is_node_end(h) ==
    /\ h.end_offset = 0
    /\ h.num_attributes = 0
    /\ h.bytelen_attributes = 0
    /\ h.bytelen_name = 0

\* Width in bytes of the three offset/count fields of a node header.
FieldWidth(v) == IF v < 7500 THEN 4 ELSE 8

\* Width in bytes of a whole node header.
HeaderWidth(v) == 3 * FieldWidth(v) + 1

\* ------------------------------------------------------------------------
\* Element encoding of the writer (IntoBytes)
\* ------------------------------------------------------------------------
into_bytes(ty, v) ==
    CASE ty = "bool" -> <<IF v THEN 89 ELSE 84>>    \* b'Y' / b'T'
      [] ty = "i16" -> LEBytes(v, 2)
      [] ty = "i32" -> LEBytes(v, 4)
      [] ty = "i64" -> LEBytes(v, 8)
      [] ty = "f32" -> Rev(v)
      [] ty = "f64" -> Rev(v)

\* ------------------------------------------------------------------------
\* Zlib streams (RFC 1950 container, RFC 1951 stored block, Adler-32)
\* ------------------------------------------------------------------------
\* CMF/FLG of a zlib stream.
ZlibHeaderBytes == <<120, 156>>

ZlibHeaderLen == Len(ZlibHeaderBytes)

\* Adler-32 of data as the pair of its two 16-bit sums.
RECURSIVE AdlerFold(_, _, _)
AdlerFold(data, a, b) ==
    IF data = <<>> THEN <<a, b>>
    ELSE LET a2 == (a + Head(data)) % 65521
         IN AdlerFold(Tail(data), a2, (b + a2) % 65521)

\* Adler-32 trailer, big-endian.
Adler32Bytes(data) ==
    LET ab == AdlerFold(data, 1, 0)
    IN <<ab[2] \div 256, ab[2] % 256, ab[1] \div 256, ab[1] % 256>>

\* One final stored deflate block holding data.
DeflateStored(data) ==
    <<1>> \o LEBytes(Len(data), 2) \o LEBytes(65535 - Len(data), 2) \o data

\* The complete zlib stream a finished encoder produces for data.
ZlibStream(data) == ZlibHeaderBytes \o DeflateStored(data) \o Adler32Bytes(data)

\* Lengths of the stream prefix that can have reached the sink when the
\* encoder is dropped without close(): nothing, or the stream header.  The
\* final block and the Adler-32 trailer are only produced by close().
ZlibUnfinishedLens == {0, ZlibHeaderLen}

\* ZlibDecoder over the bytes that start at position p: the decoded data and
\* the number of bytes consumed, or an error.
ZlibDecode(bytes, p) ==
    LET hdr == Slice(bytes, p, 2)
        blk == Slice(bytes, p + 2, 5)
        len == ULE(SubSeq(blk, 2, 3))
        nlen == ULE(SubSeq(blk, 4, 5))
        data == Slice(bytes, p + 7, len)
        trailer == Slice(bytes, p + 7 + len, 4)
    IN IF Len(hdr) < 2 \/ Len(blk) < 5 THEN [ok |-> FALSE, err |-> "UnexpectedEof"]
       ELSE IF hdr[1] % 16 # 8 \/ (hdr[1] * 256 + hdr[2]) % 31 # 0
                 \/ blk[1] # 1 \/ len + nlen # 65535
            THEN [ok |-> FALSE, err |-> "BrokenCompression"]
       ELSE IF Len(data) < len \/ Len(trailer) < 4
            THEN [ok |-> FALSE, err |-> "UnexpectedEof"]
       ELSE IF trailer # Adler32Bytes(data)
            THEN [ok |-> FALSE, err |-> "BrokenCompression"]
       ELSE [ok |-> TRUE, data |-> data, consumed |-> 11 + len]

\* ------------------------------------------------------------------------
\* Binary writer: Writer<W> over an in-memory cursor
\*   w = [sink, pos, open_nodes]; v = fbx_version
\* ------------------------------------------------------------------------
\* sink.write_all(bs)
write_all(w, bs) ==
    [w EXCEPT !.sink = WriteAt(w.sink, w.pos, bs), !.pos = w.pos + Len(bs)]

\* A seek that moves the position backwards only.
seek_back_only(w, p) == IF p < w.pos THEN [w EXCEPT !.pos = p] ELSE w

\* sink.seek(SeekFrom::Start(p))
seek(w, p) == [w EXCEPT !.pos = p]

\* A u64 as its 8 little-endian bytes, so that values past 2^32 can be told
\* from their low 32 bits.
U64(n) == LEBytes(n, 8)

\* The cast `x as u32`: the low 4 bytes, whatever the high bytes are.
u32_truncate(x) == [ok |-> TRUE, bytes |-> SubSeq(x, 1, 4)]

\* u32::try_from(x) for a u64 x: fails unless the high 4 bytes are zero.
u32_try_from(x) ==
    IF SubSeq(x, 5, 8) = Zeros(4) THEN [ok |-> TRUE, bytes |-> SubSeq(x, 1, 4)]
    ELSE [ok |-> FALSE, bytes |-> <<>>]

\* Writer::write_node_header on a header whose u64 fields are given as 8
\* little-endian bytes: [w, res]. Each field is converted and written in
\* turn, so the fields before a field that does not fit are in the sink.
write_node_header_u64(w, v, h) ==
    IF v < 7500
    THEN LET eo == u32_try_from(h.end_offset)
             na == u32_try_from(h.num_attributes)
             ba == u32_try_from(h.bytelen_attributes)
             w1 == write_all(w, eo.bytes)
             w2 == write_all(w1, na.bytes)
             w3 == write_all(w2, ba.bytes)
         IN IF ~eo.ok THEN [w |-> w, res |-> "FileTooLarge"]
            ELSE IF ~na.ok THEN [w |-> w1, res |-> "TooManyAttributes"]
            ELSE IF ~ba.ok THEN [w |-> w2, res |-> "AttributeTooLong"]
            ELSE [w |-> write_all(w3, <<h.bytelen_name>>), res |-> "Ok"]
    ELSE LET w1 == write_all(w, h.end_offset)
             w2 == write_all(w1, h.num_attributes)
             w3 == write_all(w2, h.bytelen_attributes)
         IN [w |-> write_all(w3, <<h.bytelen_name>>), res |-> "Ok"]

\* Writer::write_node_header on a header whose fields are small numbers.
write_node_header(w, v, h) ==
    write_node_header_u64(w, v, [end_offset |-> U64(h.end_offset),
                                 num_attributes |-> U64(h.num_attributes),
                                 bytelen_attributes |-> U64(h.bytelen_attributes),
                                 bytelen_name |-> h.bytelen_name]).w

\* Writer::current_node (index of the innermost open node)
current_node(w) == Len(w.open_nodes)

\* A finalize_attributes that does not look at is_attrs_finalized.
finalize_attributes_again(w) ==
    IF w.open_nodes = <<>> THEN w
    ELSE LET n == Len(w.open_nodes)
             cur == w.open_nodes[n]
         IN [w EXCEPT !.open_nodes[n] =
                [cur EXCEPT !.header.bytelen_attributes = w.pos - cur.body_pos,
                            !.is_attrs_finalized = TRUE]]

\* Writer::finalize_attributes
finalize_attributes(w) ==
    IF w.open_nodes = <<>> THEN w
    ELSE LET n == current_node(w)
             cur == w.open_nodes[n]
         IN IF cur.is_attrs_finalized THEN w
            ELSE [w EXCEPT !.open_nodes[n] =
                     [cur EXCEPT !.header.bytelen_attributes = w.pos - cur.body_pos,
                                 !.is_attrs_finalized = TRUE]]

\* Writer::new_node: [w, res]
new_node(w, v, name) ==
    LET w1 == finalize_attributes(w)
        w2 == IF w1.open_nodes = <<>> THEN w1
              ELSE [w1 EXCEPT !.open_nodes[current_node(w1)].has_child = TRUE]
    IN IF Len(name) > 255 THEN [w |-> w2, res |-> "NodeNameTooLong"]
       ELSE LET header_pos == w2.pos
                header == [end_offset |-> 0, num_attributes |-> 0,
                           bytelen_attributes |-> 0, bytelen_name |-> Len(name)]
                w3 == write_all(write_node_header(w2, v, header), name)
                body_pos == w3.pos
            IN [w |-> [w3 EXCEPT !.open_nodes =
                          Append(@, [header_pos |-> header_pos, body_pos |-> body_pos,
                                     header |-> header, has_child |-> FALSE,
                                     is_attrs_finalized |-> FALSE])],
                res |-> "Ok"]

\* The condition under which close_node writes a node end marker.
NeedsEndMarker(node) == node.has_child \/ node.header.num_attributes = 0

\* The assert_eq! of close_node.
CloseAssertion(h) == (h.num_attributes = 0) <=> (h.bytelen_attributes = 0)

\* A close_node that records an end offset one byte short.
ClosedEndOffsetShort(node_end_pos) == node_end_pos - 1

\* The end offset close_node records, given the position after the marker.
ClosedEndOffset(node_end_pos) == node_end_pos

\* Writer::close_node: [w, res]
close_node(w, v) ==
    LET w1 == finalize_attributes(w)
    IN IF w1.open_nodes = <<>> THEN [w |-> w1, res |-> "NoNodesToClose"]
       ELSE LET n == current_node(w1)
                node == w1.open_nodes[n]
                w2 == [w1 EXCEPT !.open_nodes = SubSeq(@, 1, n - 1)]
                w3 == IF NeedsEndMarker(node) THEN write_node_header(w2, v, node_end)
                      ELSE w2
                node_end_pos == w3.pos
                header == [node.header EXCEPT !.end_offset = ClosedEndOffset(node_end_pos)]
                w4 == seek(w3, node.header_pos)
            IN IF ~CloseAssertion(header) THEN [w |-> w4, res |-> "panic"]
               ELSE [w |-> seek(write_node_header(w4, v, header), node_end_pos),
                     res |-> "Ok"]

\* ------------------------------------------------------------------------
\* Attributes writer
\* ------------------------------------------------------------------------
\* AttributesWriter::update_node_header
update_node_header(w) ==
    [w EXCEPT !.open_nodes[current_node(w)].header.num_attributes = @ + 1]

\* AttributesWriter::write_type_code
write_type_code(w, ty) == write_all(w, LEBytes(type_code(ty), 1))

\* impl_single_attr_append!: the AttributeType variant of each method.
SingleVariant(m) ==
    CASE m = "append_bool" -> "Bool"
      [] m = "append_i16" -> "I16"
      [] m = "append_i32" -> "I32"
      [] m = "append_i64" -> "I64"
      [] m = "append_f32" -> "F32"
      [] m = "append_f64" -> "F64"

\* impl_single_attr_append!: the value type of each method.
SingleElemType(m) ==
    CASE m = "append_bool" -> "bool"
      [] m = "append_i16" -> "i16"
      [] m = "append_i32" -> "i32"
      [] m = "append_i64" -> "i64"
      [] m = "append_f32" -> "f32"
      [] m = "append_f64" -> "f64"

\* append_bool .. append_f64
append_single(w, m, value) ==
    LET w1 == update_node_header(w)
        w2 == write_type_code(w1, SingleVariant(m))
    IN [w |-> write_all(w2, into_bytes(SingleElemType(m), value)), res |-> "Ok"]

\* array::write_array_header
write_array_header(w, header) ==
    write_all(w, LEBytes(header.elements_count, 4) \o LEBytes(to_u32(header.encoding), 4)
                     \o LEBytes(header.bytelen, 4))

\* AttributesWriter::initialize_array: [w, header_pos]
initialize_array(w, ty, encoding) ==
    LET w1 == write_type_code(update_node_header(w), ty)
    IN [w |-> write_array_header(w1, [elements_count |-> 0, encoding |-> encoding,
                                      bytelen |-> 0]),
        header_pos |-> w1.pos]

\* A finalize_array that does not seek back to the end of the payload.
finalize_array_no_seek_end(w, header_pos, header) ==
    write_array_header(seek(w, header_pos), header)

\* AttributesWriter::finalize_array
finalize_array(w, header_pos, header) ==
    LET end_pos == w.pos
    IN seek(write_array_header(seek(w, header_pos), header), end_pos)

\* impl_arr_from_iter!: the tyval of each method.
ArrayTyval(m) ==
    CASE m \in {"append_arr_bool_from_iter", "append_arr_bool_from_result_iter"} -> "ArrBool"
      [] m \in {"append_arr_i32_from_iter", "append_arr_i32_from_result_iter"} -> "ArrI32"
      [] m \in {"append_arr_i64_from_iter", "append_arr_i64_from_result_iter"} -> "ArrI64"
      [] m \in {"append_arr_f32_from_iter", "append_arr_f32_from_result_iter"} -> "ArrI32"
      [] m \in {"append_arr_f64_from_iter", "append_arr_f64_from_result_iter"} -> "ArrI64"

\* impl_arr_from_iter!: the element type of each method.
ArrayElemType(m) ==
    CASE m \in {"append_arr_bool_from_iter", "append_arr_bool_from_result_iter"} -> "bool"
      [] m \in {"append_arr_i32_from_iter", "append_arr_i32_from_result_iter"} -> "i32"
      [] m \in {"append_arr_i64_from_iter", "append_arr_i64_from_result_iter"} -> "i64"
      [] m \in {"append_arr_f32_from_iter", "append_arr_f32_from_result_iter"} -> "f32"
      [] m \in {"append_arr_f64_from_iter", "append_arr_f64_from_result_iter"} -> "f64"

\* The bytes of the element stream that reach the sink through the encoder
\* that write_array_attr_result_iter builds and drops without closing:
\* zlen is the length of the zlib stream prefix flushed before the drop.
EncodedElements(encoding, raw, zlen) ==
    IF encoding = "Direct" THEN raw ELSE SubSeq(ZlibStream(raw), 1, zlen)

\* array::write_array_attr_result_iter (with write_elements_result_iter):
\* elems are the Ok items of the iterator, iter_err tells whether an Err
\* item follows them.
write_array_attr_result_iter(w, m, enc, elems, iter_err, zlen) ==
    LET encoding == IF enc = "None" THEN "Direct" ELSE enc
        init == initialize_array(w, ArrayTyval(m), encoding)
        start_pos == init.w.pos
        raw == Flatten([i \in 1..Len(elems) |-> into_bytes(ArrayElemType(m), elems[i])])
        w1 == write_all(init.w, EncodedElements(encoding, raw, zlen))
        end_pos == w1.pos
    IN IF iter_err THEN [w |-> w1, res |-> "UserDefined"]
       ELSE [w |-> finalize_array(w1, init.header_pos,
                       [elements_count |-> Len(elems), encoding |-> encoding,
                        bytelen |-> end_pos - start_pos]),
             res |-> "Ok"]

\* AttributesWriter::initialize_special: [w, header_pos]
initialize_special(w, ty) ==
    LET w1 == write_type_code(update_node_header(w), ty)
    IN [w |-> write_all(w1, LEBytes(0, 4)), header_pos |-> w1.pos]

\* A finalize_special that writes the length where the payload ended.
finalize_special_no_seek_back(w, header_pos, bytelen) ==
    write_all(w, LEBytes(bytelen, 4))

\* AttributesWriter::finalize_special
finalize_special(w, header_pos, bytelen) ==
    LET end_pos == w.pos
    IN seek(write_all(seek(w, header_pos), LEBytes(bytelen, 4)), end_pos)

\* The AttributeType each special-attribute method passes to initialize_special.
SpecialType(m) ==
    IF m \in {"append_string_direct"} THEN "String" ELSE "Binary"

\* append_binary_direct, append_string_direct, append_binary_from_reader,
\* append_binary_from_iter, append_binary_from_result_iter: bytes are the
\* payload (the slice, the reader's content, the Ok items of the iterator).
append_special(w, m, bytes, iter_err) ==
    LET init == initialize_special(w, SpecialType(m))
        w1 == write_all(init.w, bytes)
    IN IF iter_err THEN [w |-> w1, res |-> "UserDefined"]
       ELSE [w |-> finalize_special(w1, init.header_pos, Len(bytes)), res |-> "Ok"]

\* The UTF-8 encoding of the char with code point c.
Utf8Bytes(c) ==
    IF c < 128 THEN <<c>>
    ELSE IF c < 2048 THEN <<192 + (c \div 64), 128 + (c % 64)>>
    ELSE IF c < 65536
         THEN <<224 + (c \div 4096), 128 + ((c \div 64) % 64), 128 + (c % 64)>>
    ELSE <<240 + (c \div 262144), 128 + ((c \div 4096) % 64),
           128 + ((c \div 64) % 64), 128 + (c % 64)>>

\* c.encode_utf8(buf): the encoding overwrites the front of the 4-byte buffer,
\* the other bytes of the buffer stay as they were; len is the char's length.
encode_utf8(buf, c) ==
    [buf |-> Utf8Bytes(c) \o SubSeq(buf, Len(Utf8Bytes(c)) + 1, Len(buf)),
     len |-> Len(Utf8Bytes(c))]

\* The loop of append_string_from_iter / append_string_from_result_iter over
\* the Ok items: each round encodes the char into buf, writes buf to the sink
\* and adds the char's length to len.
RECURSIVE WriteChars(_, _, _, _)
WriteChars(w, chars, buf, len) ==
    IF chars = <<>> THEN [w |-> w, len |-> len]
    ELSE LET e == encode_utf8(buf, Head(chars))
         IN WriteChars(write_all(w, e.buf), Tail(chars), e.buf, len + e.len)

\* append_string_from_result_iter: chars are the Ok items of the iterator,
\* iter_err says that an Err item follows them.
append_string_from_result_iter(w, chars, iter_err) ==
    LET init == initialize_special(w, "String")
        wr == WriteChars(init.w, chars, Zeros(4), 0)
    IN IF iter_err THEN [w |-> wr.w, res |-> "UserDefined"]
       ELSE [w |-> finalize_special(wr.w, init.header_pos, wr.len), res |-> "Ok"]

\* append_string_from_iter: the same loop over plain chars.
append_string_from_iter(w, chars) ==
    append_string_from_result_iter(w, chars, FALSE)

\* ------------------------------------------------------------------------
\* Footer and finalization
\* ------------------------------------------------------------------------
\* Default footer of the writer: unknown1 with the high nibbles the footer
\* reader expects, unknown2, unknown3.
DEFAULT_UNKNOWN1 ==
    <<240, 177, 162, 3, 212, 197, 214, 103, 184, 121, 250, 139, 28, 253, 46, 127>>

DEFAULT_UNKNOWN2 == <<0, 0, 0, 0>>

\* F8 5A 8C 6A DE F5 D9 7E EC E9 0C E3 75 8F 29 0B
UNKNOWN3_EXPECTED ==
    <<248, 90, 140, 106, 222, 245, 217, 126, 236, 233, 12, 227, 117, 143, 41, 11>>

\* FbxFooterPaddingLength::Default and FbxFooterPaddingLength::Forced(len)
PaddingDefault == [forced |-> FALSE, len |-> 0]

PaddingForced(len) == [forced |-> TRUE, len |-> len]

\* FbxFooter::default()
DefaultFooter ==
    [unknown1 |-> DEFAULT_UNKNOWN1, padding_len |-> PaddingDefault,
     unknown2 |-> DEFAULT_UNKNOWN2, unknown3 |-> UNKNOWN3_EXPECTED]

\* A footer with unknown1 given by the caller and the defaults elsewhere.
CUSTOM_UNKNOWN1 ==
    <<241, 178, 163, 4, 213, 198, 215, 104, 185, 122, 251, 140, 29, 254, 47, 112>>

CustomFooter == [DefaultFooter EXCEPT !.unknown1 = CUSTOM_UNKNOWN1]

\* FbxFooterPaddingLength::Forced(len) on the default footer.
ForcedFooter(len) == [DefaultFooter EXCEPT !.padding_len = PaddingForced(len)]

\* 16 - (current & 0x0f): the padding that never is empty.
PaddingForNoWrap(current) == 16 - (current % 16)

\* current.wrapping_neg() & 0x0f
PaddingFor(current) == (16 - (current % 16)) % 16

\* Writer::write_fbx_verison
write_fbx_verison(w, v) == write_all(w, LEBytes(v, 4))

\* The implicit root is left without its node end marker.
close_implicit_root_skipped(w, v) == w

\* "Close implicit root node."
close_implicit_root(w, v) == write_node_header(w, v, node_end)

\* finalize_impl without the test for open nodes.
finalize_impl_unchecked(w, v, footer) ==
    LET w1 == close_implicit_root(w, v)
        w2 == write_all(w1, footer.unknown1)
        len == IF footer.padding_len = PaddingDefault THEN PaddingFor(w2.pos)
               ELSE footer.padding_len.len
        w3 == write_all(w2, Zeros(len))
        w4 == write_all(w3, footer.unknown2)
        w5 == write_fbx_verison(w4, v)
        w6 == write_all(w5, Zeros(120))
    IN [w |-> write_all(w6, footer.unknown3), res |-> "Ok", n |-> 0]

\* Writer::finalize_impl: [w, res, n], n being the depth of UnclosedNode(n)
finalize_impl(w, v, footer) ==
    IF w.open_nodes # <<>>
    THEN [w |-> w, res |-> "UnclosedNode", n |-> Len(w.open_nodes)]
    ELSE LET w1 == close_implicit_root(w, v)
             w2 == write_all(w1, footer.unknown1)
             len == IF footer.padding_len = PaddingDefault THEN PaddingFor(w2.pos)
                    ELSE footer.padding_len.len
             w3 == write_all(w2, Zeros(len))
             w4 == write_all(w3, footer.unknown2)
             w5 == write_fbx_verison(w4, v)
             w6 == write_all(w5, Zeros(120))
         IN [w |-> write_all(w6, footer.unknown3), res |-> "Ok", n |-> 0]

\* ------------------------------------------------------------------------
\* Inputs of the writer operations
\* ------------------------------------------------------------------------
\* "A", "Bc"
ShortNames == {<<65>>, <<66, 99>>}

\* A name of 256 bytes, one more than a node header can describe.
LongName == [i \in 1..256 |-> 120]

\* Sample elements of each element type.
Sample(et) ==
    CASE et = "bool" -> <<TRUE, FALSE>>
      [] et = "i16" -> <<-2, 258>>
      [] et = "i32" -> <<-2, 258>>
      [] et = "i64" -> <<-3, 65537>>
      [] et = "f32" -> <<<<63, 157, 243, 182>>, <<191, 128, 0, 0>>>>
      [] et = "f64" -> <<<<64, 69, 0, 0, 0, 0, 0, 0>>, <<63, 243, 190, 118, 200, 180, 57, 88>>>>

ArrayElemTypes == {"bool", "i32", "i64", "f32", "f64"}

Call(m, val, enc, err, zlen) ==
    [enc |-> enc, err |-> err, m |-> m, val |-> val, zlen |-> zlen]

SingleMethods ==
    {"append_bool", "append_i16", "append_i32", "append_i64", "append_f32", "append_f64"}

ArrayFromIter(et) == "append_arr_" \o et \o "_from_iter"
ArrayFromResultIter(et) == "append_arr_" \o et \o "_from_result_iter"

ArrayMethods ==
    {ArrayFromIter(et) : et \in ArrayElemTypes}
        \cup {ArrayFromResultIter(et) : et \in ArrayElemTypes}

SpecialMethods ==
    {"append_binary_direct", "append_string_direct", "append_binary_from_reader",
     "append_binary_from_iter", "append_binary_from_result_iter"}

StringIterMethods == {"append_string_from_iter", "append_string_from_result_iter"}

SingleCalls ==
    {Call(m, Sample(SingleElemType(m))[1], "None", FALSE, 0) : m \in SingleMethods}
        \cup {Call("append_bool", FALSE, "None", FALSE, 0)}

ArrayCalls ==
    {Call(ArrayFromIter(et), Sample(et), enc, FALSE, 0) :
        et \in ArrayElemTypes, enc \in {"None", "Direct"}}
    \cup {Call(ArrayFromIter(et), Sample(et), "Zlib", FALSE, z) :
            et \in ArrayElemTypes, z \in ZlibUnfinishedLens}
    \cup {Call(ArrayFromIter("i32"), <<>>, enc, FALSE, 0) : enc \in {"None", "Zlib"}}
    \cup {Call(ArrayFromResultIter(et), SubSeq(Sample(et), 1, 1), "None", FALSE, 0) :
            et \in ArrayElemTypes}
    \cup {Call(ArrayFromResultIter("i32"), SubSeq(Sample("i32"), 1, 1), "Direct", TRUE, 0)}

SpecialCalls ==
    {Call("append_binary_direct", <<1, 2>>, "None", FALSE, 0),
     Call("append_binary_direct", <<>>, "None", FALSE, 0),
     Call("append_string_direct", <<72, 105>>, "None", FALSE, 0),
     Call("append_binary_from_reader", <<7>>, "None", FALSE, 0),
     Call("append_binary_from_iter", <<8, 9>>, "None", FALSE, 0),
     Call("append_binary_from_result_iter", <<9>>, "None", FALSE, 0),
     Call("append_binary_from_result_iter", <<9>>, "None", TRUE, 0)}

\* Strings given as chars (code points): "Hi", "\u{e9}A", "\u{20ac}",
\* "\u{1f600}" and the empty string.
StringIterCalls ==
    {Call("append_string_from_iter", cs, "None", FALSE, 0) :
        cs \in {<<72, 105>>, <<233, 65>>, <<128512>>, <<>>}}
    \cup {Call("append_string_from_result_iter", <<8364>>, "None", FALSE, 0),
          Call("append_string_from_result_iter", <<65>>, "None", TRUE, 0)}

\* Every append call of the model.
AllCalls == SingleCalls \cup ArrayCalls \cup SpecialCalls \cup StringIterCalls

\* The append calls used where the properties are about the node structure.
CoreCalls ==
    {Call("append_bool", TRUE, "None", FALSE, 0),
     Call(ArrayFromIter("i32"), Sample("i32"), "None", FALSE, 0),
     Call("append_string_direct", <<72, 105>>, "None", FALSE, 0)}
        \cup {Call(ArrayFromIter("i32"), Sample("i32"), "Zlib", FALSE, z) :
                 z \in ZlibUnfinishedLens}

\* One append call on the writer: [w, res]
append(w, c) ==
    IF c.m \in SingleMethods THEN append_single(w, c.m, c.val)
    ELSE IF c.m \in ArrayMethods
         THEN write_array_attr_result_iter(w, c.m, c.enc, c.val, c.err, c.zlen)
    ELSE IF c.m = "append_string_from_iter" THEN append_string_from_iter(w, c.val)
    ELSE IF c.m = "append_string_from_result_iter"
         THEN append_string_from_result_iter(w, c.val, c.err)
    ELSE append_special(w, c.m, c.val, c.err)

\* ------------------------------------------------------------------------
\* State
\* ------------------------------------------------------------------------
VARIABLES
    sink,          \* bytes of the Cursor<Vec<u8>> the writer writes to
    pos,           \* position of the cursor
    open_nodes,    \* Writer::open_nodes
    fbx_version,   \* Writer::fbx_version
    attrs_live,    \* an AttributesWriter borrowed from the writer is alive
    phase,         \* "writing", "finalized", "dropped" or "panicked"
    track,         \* per open node: what the caller did with it so far
    calls,         \* the writer calls made so far, with their results
    last,          \* the last writer call and what it was observed to do
    used,          \* calls counted against the bounds
    tree           \* the tree given to write_tree, if any

vars ==
    <<sink, pos, open_nodes, fbx_version, attrs_live, phase, track, calls, last,
      used, tree>>

\* The writer as one record.
W == [sink |-> sink, pos |-> pos, open_nodes |-> open_nodes]

SetW(w) ==
    /\ sink' = w.sink
    /\ pos' = w.pos
    /\ open_nodes' = w.open_nodes

NoTree == <<>>

\* Writer::new on an empty cursor.
WriterNew(v) ==
    write_all(seek([sink |-> <<>>, pos |-> 0, open_nodes |-> <<>>], 0),
              MAGIC \o LEBytes(v, 4))

InitWith(v, t) ==
    /\ fbx_version = v
    /\ sink = WriterNew(v).sink
    /\ pos = WriterNew(v).pos
    /\ open_nodes = WriterNew(v).open_nodes
    /\ attrs_live = FALSE
    /\ phase = "writing"
    /\ track = <<>>
    /\ calls = <<>>
    /\ last = [op |-> "new"]
    /\ used = [nodes |-> 0, attrs |-> 0, fails |-> 0]
    /\ tree = t

Init == \E v \in {V7_4, V7_5} : InitWith(v, NoTree)

\* ------------------------------------------------------------------------
\* Writer calls
\* ------------------------------------------------------------------------
\* What the caller did with an open node.
NewTrack(name, depth) ==
    [name |-> name, depth |-> depth, children |-> 0, attrs |-> <<>>, attr_bytes |-> 0,
     first_child_pos |-> -1]

\* writer.new_node(name) with a name that fits.
NewNodeIn(names) ==
    /\ phase = "writing"
    /\ used.nodes < MaxNodes
    /\ \E name \in names :
        LET r == new_node(W, fbx_version, name)
            d == Len(track)
        IN /\ r.res = "Ok"
           /\ SetW(r.w)
           /\ track' = Append(IF d = 0 THEN track
                              ELSE [track EXCEPT ![d].children = @ + 1,
                                                 ![d].first_child_pos =
                                                     IF @ = -1 THEN pos ELSE @],
                              NewTrack(name, d + 1))
           /\ calls' = Append(calls, [op |-> "new_node", name |-> name, depth |-> d + 1])
           /\ last' = [op |-> "new_node", res |-> r.res, header_pos |-> pos]
    /\ attrs_live' = TRUE
    /\ used' = [used EXCEPT !.nodes = @ + 1]
    /\ UNCHANGED <<fbx_version, phase, tree>>

NewNode == NewNodeIn(ShortNames)

\* writer.new_node(name) with a name of more than 255 bytes.
NewNodeTooLong ==
    /\ phase = "writing"
    /\ used.fails < MaxFailures
    /\ LET r == new_node(W, fbx_version, LongName)
       IN /\ r.res = "NodeNameTooLong"
          /\ SetW(r.w)
          /\ last' = [op |-> "new_node", res |-> r.res, header_pos |-> pos]
    /\ attrs_live' = FALSE
    /\ used' = [used EXCEPT !.fails = @ + 1]
    /\ UNCHANGED <<fbx_version, phase, track, calls, tree>>

\* One append call through the live AttributesWriter.
AppendIn(callset) ==
    /\ phase = "writing"
    /\ attrs_live
    /\ used.attrs < MaxAttrs
    /\ \E c \in callset :
        LET r == append(W, c)
            d == Len(track)
        IN /\ c.err => used.fails < MaxFailures
           /\ SetW(r.w)
           /\ track' = [track EXCEPT ![d].attrs = Append(@, [call |-> c, res |-> r.res]),
                                     ![d].attr_bytes = @ + (Len(r.w.sink) - Len(sink))]
           /\ calls' = Append(calls, [op |-> "append", call |-> c, res |-> r.res])
           /\ last' = [op |-> "append", res |-> r.res, call |-> c, start |-> pos]
           /\ used' = [used EXCEPT !.attrs = @ + 1,
                                   !.fails = IF r.res = "Ok" THEN @ ELSE @ + 1]
    /\ UNCHANGED <<fbx_version, attrs_live, phase, tree>>

AppendAttr == AppendIn(CoreCalls)

AppendAny == AppendIn(AllCalls)

\* writer.close_node()
CloseNode ==
    /\ phase = "writing"
    /\ open_nodes # <<>>
    /\ LET r == close_node(W, fbx_version)
           d == Len(track)
       IN /\ SetW(r.w)
          /\ phase' = IF r.res = "panic" THEN "panicked" ELSE phase
          /\ track' = SubSeq(track, 1, d - 1)
          /\ calls' = Append(calls, [op |-> "close_node", res |-> r.res])
          /\ last' = [op |-> "close_node", res |-> r.res, node |-> track[d],
                      header_pos |-> open_nodes[d].header_pos,
                      body_pos |-> open_nodes[d].body_pos,
                      end0 |-> Len(sink)]
    /\ attrs_live' = FALSE
    /\ UNCHANGED <<fbx_version, used, tree>>

\* writer.close_node() with no open node.
CloseNothing ==
    /\ phase = "writing"
    /\ open_nodes = <<>>
    /\ used.fails < MaxFailures
    /\ LET r == close_node(W, fbx_version)
       IN /\ r.res = "NoNodesToClose"
          /\ SetW(r.w)
          /\ last' = [op |-> "close_node", res |-> r.res]
    /\ attrs_live' = FALSE
    /\ used' = [used EXCEPT !.fails = @ + 1]
    /\ UNCHANGED <<fbx_version, phase, track, calls, tree>>

\* writer.finalize(&footer) or writer.finalize_and_flush(&footer) with one of
\* the given footers; the writer is consumed.
FinalizeWith(footers) ==
    /\ phase = "writing"
    /\ \E footer \in footers :
        LET r == finalize_impl(W, fbx_version, footer)
        IN /\ SetW(r.w)
           /\ phase' = IF r.res = "Ok" THEN "finalized" ELSE "dropped"
           /\ last' = [op |-> "finalize", res |-> r.res, n |-> r.n, end0 |-> Len(sink),
                       open |-> Len(open_nodes), footer |-> footer]
    /\ attrs_live' = FALSE
    /\ UNCHANGED <<fbx_version, track, calls, used, tree>>

\* writer.finalize(&FbxFooter::default())
Finalize == FinalizeWith({DefaultFooter})

\* An append call on a sink whose write of the type code fails: the call
\* returns the I/O error after update_node_header.
AppendSinkFail ==
    /\ phase = "writing"
    /\ attrs_live
    /\ used.fails < MaxFailures
    /\ SetW(update_node_header(W))
    /\ last' = [op |-> "append", res |-> "Io", start |-> pos]
    /\ calls' = Append(calls, [op |-> "append", res |-> "Io"])
    /\ used' = [used EXCEPT !.fails = @ + 1]
    /\ UNCHANGED <<fbx_version, attrs_live, phase, track, tree>>

\* The writer API on a reliable sink, with the core attribute calls.
Next ==
    \/ NewNode
    \/ NewNodeTooLong
    \/ AppendAttr
    \/ CloseNode
    \/ CloseNothing
    \/ Finalize

Spec == Init /\ [][Next]_vars

\* One node that receives any of the append calls.
NextAttr ==
    \/ (used.nodes = 0 /\ NewNode)
    \/ AppendAny
    \/ CloseNode
    \/ Finalize

SpecAttr == Init /\ [][NextAttr]_vars

\* The writer API on a sink that can fail.
NextFaulty ==
    \/ NewNode
    \/ AppendAttr
    \/ AppendSinkFail
    \/ CloseNode
    \/ Finalize

SpecFaulty == Init /\ [][NextFaulty]_vars

\* ------------------------------------------------------------------------
\* Properties of the writer
\* ------------------------------------------------------------------------
ClosedOk == last.op = "close_node" /\ last.res = "Ok"

AppendedOk == last.op = "append" /\ last.res = "Ok"

\* The field with index i (0, 1, 2) of the node header stored at position p.
HeaderField(p, i) ==
    ULE(Slice(sink, p + i * FieldWidth(fbx_version), FieldWidth(fbx_version)))

\* The last close_node appended an all-zero node end marker and nothing else.
MarkerAppended ==
    /\ Len(sink) = last.end0 + HeaderWidth(fbx_version)
    /\ Slice(sink, last.end0, HeaderWidth(fbx_version)) = Zeros(HeaderWidth(fbx_version))

\* C3: a successful close_node writes a node end marker if and only if the
\* closed node had a child opened with new_node or has no attribute; without
\* a marker it appends nothing.
C3_ClosePolicy ==
    ClosedOk =>
        /\ MarkerAppended <=> (last.node.children > 0 \/ last.node.attrs = <<>>)
        /\ MarkerAppended \/ Len(sink) = last.end0

\* C4 (as stated): the end_offset patched into the header of a closed node
\* with a child is the position where its trailing node end marker starts.
C4_EndOffsetIsMarkerStart ==
    (ClosedOk /\ last.node.children > 0) =>
        HeaderField(last.header_pos, 0) = last.end0

\* C4 (amended): the end_offset patched into the header of a closed node with
\* a child is the position just after its trailing node end marker, which is
\* the end of the node record and the position of the sink after the call.
C4_EndOffsetIsAfterMarker ==
    (ClosedOk /\ last.node.children > 0) =>
        /\ MarkerAppended
        /\ HeaderField(last.header_pos, 0) = last.end0 + HeaderWidth(fbx_version)
        /\ HeaderField(last.header_pos, 0) = pos

C4_Witness ==
    /\ ClosedOk
    /\ last.node.children > 0
    /\ last.node.attrs # <<>>
    /\ HeaderField(last.header_pos, 0) = last.end0 + HeaderWidth(fbx_version)

\* C5: the bytelen_attributes patched into the header of a closed node is the
\* number of bytes between the end of its name and its first child (or the
\* point where it was closed), which is the number of bytes its appends
\* wrote; bytes of children written afterwards do not change it.
C5_BytelenAttributes ==
    ClosedOk =>
        LET body == last.header_pos + HeaderWidth(fbx_version) + Len(last.node.name)
            stop == IF last.node.children = 0 THEN last.end0
                    ELSE last.node.first_child_pos
        IN /\ HeaderField(last.header_pos, 2) = stop - body
           /\ HeaderField(last.header_pos, 2) = last.node.attr_bytes
           /\ HeaderField(last.header_pos, 1) = Len(last.node.attrs)

C5_Witness ==
    /\ ClosedOk
    /\ last.node.children > 0
    /\ last.node.attr_bytes > 0
    /\ HeaderField(last.header_pos, 2) = last.node.attr_bytes

\* C6: the assertion of close_node never fails, whatever calls were made
\* before and whether or not they returned an error.
C6_CloseAssertionHolds == last.op = "close_node" => last.res # "panic"

\* C7: every successful append call writes the type code of the wire type of
\* the value it appends as the first byte of the attribute.
C7_TypeCodes ==
    AppendedOk =>
        sink[last.start + 1] =
            CASE last.call.m = "append_bool" -> 67
              [] last.call.m = "append_i16" -> 89
              [] last.call.m = "append_i32" -> 73
              [] last.call.m = "append_i64" -> 76
              [] last.call.m = "append_f32" -> 70
              [] last.call.m = "append_f64" -> 68
              [] last.call.m \in {ArrayFromIter("bool"), ArrayFromResultIter("bool")} -> 98
              [] last.call.m \in {ArrayFromIter("i32"), ArrayFromResultIter("i32")} -> 105
              [] last.call.m \in {ArrayFromIter("i64"), ArrayFromResultIter("i64")} -> 108
              [] last.call.m \in {ArrayFromIter("f32"), ArrayFromResultIter("f32")} -> 102
              [] last.call.m \in {ArrayFromIter("f64"), ArrayFromResultIter("f64")} -> 100
              [] last.call.m \in {"append_string_direct"} \cup StringIterMethods -> 83
              [] OTHER -> 82

\* C9: after a successful array append the 12 bytes after the type code hold
\* the number of elements taken from the iterator, the requested encoding
\* (Direct when none was given) and the number of payload bytes up to the end
\* of the attribute, and the sink position is the end of the attribute.
C9_ArrayHeaderPatched ==
    (AppendedOk /\ last.call.m \in ArrayMethods) =>
        /\ ULE(Slice(sink, last.start + 1, 4)) = Len(last.call.val)
        /\ ULE(Slice(sink, last.start + 5, 4)) =
               (IF last.call.enc = "Zlib" THEN 1 ELSE 0)
        /\ ULE(Slice(sink, last.start + 9, 4)) = Len(sink) - (last.start + 13)
        /\ pos = Len(sink)

C9_Witness ==
    /\ AppendedOk
    /\ last.call.m = ArrayFromIter("i64")
    /\ last.call.enc = "Direct"
    /\ ULE(Slice(sink, last.start + 1, 4)) = 2
    /\ ULE(Slice(sink, last.start + 9, 4)) = 16
    /\ pos = last.start + 29

\* C10: after a successful append_binary_direct, append_string_direct,
\* append_binary_from_reader, append_binary_from_iter or
\* append_binary_from_result_iter the 4-byte length after the type code is the
\* number of payload bytes up to the end of the attribute, the payload is the
\* given bytes, and the sink position is the end of the attribute.
C10_SpecialLengthPatched ==
    (AppendedOk /\ last.call.m \in SpecialMethods) =>
        /\ ULE(Slice(sink, last.start + 1, 4)) = Len(sink) - (last.start + 5)
        /\ Slice(sink, last.start + 5, Len(sink) - (last.start + 5)) = last.call.val
        /\ pos = Len(sink)

C10_Witness ==
    /\ AppendedOk
    /\ last.call.m = "append_binary_from_iter"
    /\ ULE(Slice(sink, last.start + 1, 4)) = 2
    /\ pos = last.start + 7

\* C12: finalize with n > 0 open nodes fails with UnclosedNode(n) and leaves
\* the sink as it was; finalize with no open node does not fail with
\* UnclosedNode.
C12_FinalizeUnclosed ==
    [][(phase = "writing" /\ phase' \in {"finalized", "dropped"}) =>
          IF open_nodes # <<>>
          THEN /\ last'.res = "UnclosedNode"
               /\ last'.n = Len(open_nodes)
               /\ sink' = sink
               /\ pos' = pos
          ELSE last'.res # "UnclosedNode"]_vars

C12_Witness ==
    /\ phase = "dropped"
    /\ last.op = "finalize"
    /\ last.res = "UnclosedNode"
    /\ last.n = 2
    /\ Len(open_nodes) = 2

\* The finalized output after the bytes written before finalize: the root's
\* node end marker, unknown1 and the padding.
FooterPadStart == last.end0 + HeaderWidth(fbx_version) + 16

FooterPadLen == Len(sink) - FooterPadStart - (4 + 4 + 120 + 16)

\* C14: with the default padding the number of padding bytes is (-p) mod 16
\* for the position p just after unknown1, it is in 0..15, unknown2 starts at
\* a multiple of 16 and the finalized output has a length that is a multiple
\* of 16.
C14_FooterAlignment ==
    (phase = "finalized" /\ last.footer.padding_len = PaddingDefault) =>
        /\ FooterPadLen \in 0..15
        /\ (FooterPadStart + FooterPadLen) % 16 = 0
        /\ Slice(sink, FooterPadStart, FooterPadLen) = Zeros(FooterPadLen)
        /\ Slice(sink, FooterPadStart + FooterPadLen, 4) = last.footer.unknown2
        /\ Len(sink) % 16 = 0

C14_Witness ==
    /\ phase = "finalized"
    /\ last.footer.padding_len = PaddingDefault
    /\ FooterPadLen = 15
    /\ used.attrs = MaxAttrs

\* C11: after a successful append_string_from_iter or
\* append_string_from_result_iter the payload bytes written are the UTF-8
\* encoding of the chars, the 4-byte length is the number of payload bytes
\* written, and the attribute occupies 1 + 4 + length bytes.
C11_StringIterPayload ==
    (AppendedOk /\ last.call.m \in StringIterMethods) =>
        LET utf8 == Flatten([i \in 1..Len(last.call.val) |-> Utf8Bytes(last.call.val[i])])
            length == ULE(Slice(sink, last.start + 1, 4))
        IN /\ Slice(sink, last.start + 5, Len(sink) - (last.start + 5)) = utf8
           /\ length = Len(sink) - (last.start + 5)
           /\ Len(sink) - last.start = 1 + 4 + length

\* ------------------------------------------------------------------------
\* Readers: position reader, typed reads, attribute reader
\* ------------------------------------------------------------------------
\* read_exact of n bytes at position p succeeds.
Readable(bytes, p, n) == p + n <= Len(bytes)

\* SeekableReader::skip_distance: the position after the skip.
skip_distance(p, distance) == p + distance

\* AsyncPositionRead::skip_to: the position after the skip.
skip_to(p, target) == skip_distance(p, target + p)

\* i64::from_le_bytes; a value outside the 32-bit range of the model's
\* integers is kept as its bit pattern.
I64Value(bs) ==
    LET lo == SLE(SubSeq(bs, 1, 4))
    IN IF LEBytes(lo, 8) = bs THEN lo ELSE [bits |-> Rev(bs)]

\* Width in bytes of an element on the wire.
ElemSize(et) ==
    CASE et = "bool" -> 1
      [] et = "i16" -> 2
      [] et = "i32" -> 4
      [] et = "i64" -> 8
      [] et = "f32" -> 4
      [] et = "f64" -> 8

\* FromAsyncReader for the primitive types (bool as Attributes reads it).
FromBytes(et, bs) ==
    CASE et = "bool" -> bs[1] % 2 = 1
      [] et = "i16" -> SLE(bs)
      [] et = "i32" -> SLE(bs)
      [] et = "i64" -> I64Value(bs)
      [] et = "f32" -> Rev(bs)
      [] et = "f64" -> Rev(bs)

\* The element type read for an attribute type.
ElemTypeOf(ty) ==
    CASE ty \in {"Bool", "ArrBool"} -> "bool"
      [] ty = "I16" -> "i16"
      [] ty \in {"I32", "ArrI32"} -> "i32"
      [] ty \in {"I64", "ArrI64"} -> "i64"
      [] ty \in {"F32", "ArrF32"} -> "f32"
      [] ty \in {"F64", "ArrF64"} -> "f64"

SingleTypes == {"Bool", "I16", "I32", "I64", "F32", "F64"}

ArrayTypes == {"ArrBool", "ArrI32", "ArrI64", "ArrF32", "ArrF64"}

\* A boolean byte that is neither b'T' nor b'Y'.
IncorrectBoolean(b) == b # 84 /\ b # 89

\* Validity of a string or name as UTF-8 (the model only writes ASCII).
ValidUtf8(bs) == \A i \in 1..Len(bs) : bs[i] < 128

\* The cursor of Attributes: reader position, next_attr_start_offset,
\* rest_count.
AttrCursor(p, total) == [pos |-> p, next |-> p, rest |-> total]

\* Attributes::read_next_attr_type: [res, ty, c]
read_next_attr_type(bytes, c) ==
    IF c.rest = 0 THEN [res |-> "None", ty |-> "", c |-> c]
    ELSE LET p == IF c.pos < c.next THEN skip_to(c.pos, c.next) ELSE c.pos
         IN IF ~Readable(bytes, p, 1)
            THEN [res |-> "Io", ty |-> "", c |-> [c EXCEPT !.pos = p]]
            ELSE IF from_type_code(bytes[p + 1]) = "InvalidAttributeTypeCode"
            THEN [res |-> "InvalidAttributeTypeCode", ty |-> "",
                  c |-> [c EXCEPT !.pos = p + 1]]
            ELSE [res |-> "Ok", ty |-> from_type_code(bytes[p + 1]),
                  c |-> [c EXCEPT !.pos = p + 1, !.rest = @ - 1]]

AttrErr(res, c) == [res |-> res, value |-> <<>>, warn |-> FALSE, c |-> c]

\* The elements of an array read from the decoded stream data.
Elements(et, data, count) ==
    [i \in 1..count |-> FromBytes(et, Slice(data, (i - 1) * ElemSize(et), ElemSize(et)))]

\* load_next_impl for a single value, with DirectLoader.
load_single(bytes, c, ty) ==
    LET n == ElemSize(ElemTypeOf(ty))
        bs == Slice(bytes, c.pos, n)
    IN IF ~Readable(bytes, c.pos, n) THEN AttrErr("Io", c)
       ELSE [res |-> "Ok",
             value |-> [ty |-> ty, val |-> FromBytes(ElemTypeOf(ty), bs)],
             warn |-> ty = "Bool" /\ IncorrectBoolean(bs[1]),
             c |-> [c EXCEPT !.pos = c.pos + n, !.next = c.pos + n]]

\* load_next_impl for an array, with DirectLoader (try_collect of the element
\* stream over AttributeStreamDecoder).
load_array(bytes, c, ty) ==
    IF ~Readable(bytes, c.pos, 12) THEN AttrErr("Io", c)
    ELSE LET count == ULE(Slice(bytes, c.pos, 4))
             encoding == from_u32(ULE(Slice(bytes, c.pos + 4, 4)))
             bytelen == ULE(Slice(bytes, c.pos + 8, 4))
             start == c.pos + 12
             c1 == [c EXCEPT !.pos = start, !.next = start + bytelen]
             et == ElemTypeOf(ty)
             need == count * ElemSize(et)
             z == ZlibDecode(bytes, start)
             data == IF encoding = "Direct" THEN Slice(bytes, start, need) ELSE z.data
             vals == Elements(et, data, count)
         IN IF encoding = "InvalidArrayAttributeEncoding"
            THEN AttrErr(encoding, [c EXCEPT !.pos = start])
            ELSE IF count = 0
            THEN [res |-> "Ok", value |-> [ty |-> ty, val |-> <<>>], warn |-> FALSE,
                  c |-> c1]
            ELSE IF encoding = "Zlib" /\ ~z.ok THEN AttrErr(z.err, c1)
            ELSE IF Len(data) < need THEN AttrErr("Io", c1)
            ELSE [res |-> "Ok", value |-> [ty |-> ty, val |-> vals],
                  warn |-> ty = "ArrBool"
                           /\ \E i \in 1..count : IncorrectBoolean(data[i]),
                  c |-> [c1 EXCEPT !.pos = start + (IF encoding = "Direct" THEN need
                                                   ELSE z.consumed)]]

\* load_next_impl for a binary or string, with DirectLoader.
load_special(bytes, c, ty) ==
    IF ~Readable(bytes, c.pos, 4) THEN AttrErr("Io", c)
    ELSE LET bytelen == ULE(Slice(bytes, c.pos, 4))
             start == c.pos + 4
             data == Slice(bytes, start, bytelen)
             c1 == [c EXCEPT !.pos = start + Len(data), !.next = start + bytelen]
         IN IF ty = "String" /\ ~ValidUtf8(data) THEN AttrErr("Io", c1)
            ELSE [res |-> "Ok", value |-> [ty |-> ty, val |-> data], warn |-> FALSE,
                  c |-> c1]

\* Attributes::load_next_impl with DirectLoader: [res, value, warn, c]
load_next_impl(bytes, c, ty) ==
    IF ty \in SingleTypes THEN load_single(bytes, c, ty)
    ELSE IF ty \in ArrayTypes THEN load_array(bytes, c, ty)
    ELSE load_special(bytes, c, ty)

\* Attributes::load_next(DirectLoader): [res, value, warn, c]; res is "None"
\* when no attribute is left.
load_next(bytes, c) ==
    LET t == read_next_attr_type(bytes, c)
    IN IF t.res # "Ok" THEN AttrErr(t.res, t.c)
       ELSE load_next_impl(bytes, t.c, t.ty)

\* A caller that loads every attribute of the node and stops at the first
\* error: [res, values, warnings, c]
RECURSIVE LoadAll(_, _, _, _)
LoadAll(bytes, c, values, warnings) ==
    LET r == load_next(bytes, c)
    IN IF r.res = "None"
       THEN [res |-> "Ok", values |-> values, warnings |-> warnings, c |-> r.c]
       ELSE IF r.res # "Ok"
       THEN [res |-> r.res, values |-> values, warnings |-> warnings, c |-> r.c]
       ELSE LoadAll(bytes, r.c, Append(values, r.value),
                    IF r.warn THEN Append(warnings, "IncorrectBooleanRepresentation")
                    ELSE warnings)

\* ------------------------------------------------------------------------
\* Pull parser
\* ------------------------------------------------------------------------
\* A magic check that looks at the text in front of the three trailing bytes.
magic_matches_text(magic_buf) == SubSeq(magic_buf, 1, 20) = SubSeq(MAGIC, 1, 20)

\* magic_buf != *MAGIC
magic_matches(magic_buf) == magic_buf = MAGIC

\* VERSION_LEN of FbxHeader::len
VERSION_LEN == 4

\* FbxHeader::load on a cursor at position 0: [res, version, pos]. read_exact
\* and read_u32 take what the input has when it ends early and fail with
\* UnexpectedEof.
FbxHeader_load(bytes) ==
    IF ~Readable(bytes, 0, MAGIC_LEN)
    THEN [res |-> "Io", version |-> 0, pos |-> Len(bytes)]
    ELSE IF ~magic_matches(Slice(bytes, 0, MAGIC_LEN))
    THEN [res |-> "MagicNotDetected", version |-> 0, pos |-> MAGIC_LEN]
    ELSE IF ~Readable(bytes, MAGIC_LEN, VERSION_LEN)
    THEN [res |-> "Io", version |-> 0, pos |-> Len(bytes)]
    ELSE [res |-> "Ok", version |-> ULE(Slice(bytes, MAGIC_LEN, VERSION_LEN)),
          pos |-> MAGIC_LEN + VERSION_LEN]

\* FbxHeader::load and the choice of the parser version: [res, version, pos]
FbxHeaderLoad(bytes) ==
    LET h == FbxHeader_load(bytes)
    IN IF h.res = "Ok" /\ h.version \div 1000 # 7
       THEN [h EXCEPT !.res = "UnsupportedVersion"]
       ELSE h

\* A widening that copies the top bit of the u32 into the high bytes.
u64_from_i32(bs) == bs \o (IF bs[4] >= 128 THEN <<255, 255, 255, 255>> ELSE Zeros(4))

\* u64::from(x) for a u32 x read as 4 little-endian bytes.
u64_from_u32(bs) == bs \o Zeros(4)

\* NodeHeader::from_async_parser at position p (the bytes are readable): the
\* header with its u64 fields as 8 little-endian bytes, and the position of
\* the reader after it.
ReadNodeHeaderU64(bytes, v, p) ==
    IF v < 7500
    THEN [header |-> [end_offset |-> u64_from_u32(Slice(bytes, p, 4)),
                      num_attributes |-> u64_from_u32(Slice(bytes, p + 4, 4)),
                      bytelen_attributes |-> u64_from_u32(Slice(bytes, p + 8, 4)),
                      bytelen_name |-> bytes[p + 12 + 1]],
          pos |-> p + 12 + 1]
    ELSE [header |-> [end_offset |-> Slice(bytes, p, 8),
                      num_attributes |-> Slice(bytes, p + 8, 8),
                      bytelen_attributes |-> Slice(bytes, p + 16, 8),
                      bytelen_name |-> bytes[p + 24 + 1]],
          pos |-> p + 24 + 1]

\* A u64 or u32 field as a number. A value of 2^30 or more, which lies past
\* every offset of the inputs, is kept as 2^30 - 1.
OffsetValue(bs) ==
    IF \E i \in 4..Len(bs) : bs[i] # 0 /\ (i > 4 \/ bs[i] >= 64)
    THEN 1073741823
    ELSE ULE(SubSeq(bs, 1, 4))

\* NodeHeader::from_async_parser at position p, with its fields as numbers.
ReadNodeHeader(bytes, v, p) ==
    LET h == ReadNodeHeaderU64(bytes, v, p).header
    IN [end_offset |-> OffsetValue(h.end_offset),
        num_attributes |-> OffsetValue(h.num_attributes),
        bytelen_attributes |-> OffsetValue(h.bytelen_attributes),
        bytelen_name |-> h.bytelen_name]

\* Expected upper 4 bits of the bytes of the footer's unknown field 1.
EXPECTED ==
    <<240, 176, 160, 0, 208, 192, 208, 96, 176, 112, 240, 128, 16, 240, 32, 112>>

\* Index (from 0) of the first non-zero byte of s, or -1.
FirstNonZero(s) ==
    IF \E i \in 1..Len(s) : s[i] # 0
    THEN (CHOOSE i \in 1..Len(s) : s[i] # 0 /\ \A j \in 1..(i - 1) : s[j] = 0) - 1
    ELSE -1

\* buf_start_pos & 0x0f: the bytes past the last 16-byte boundary.
expected_padding_len_floor(buf_start_pos) == buf_start_pos % 16

\* (buf_start_pos.wrapping_neg() & 0x0f) as usize
expected_padding_len(buf_start_pos) == (16 - (buf_start_pos % 16)) % 16

\* A footer version that is accepted whatever the header says.
VersionAny(version, v) == TRUE

\* version != parser.fbx_version() is a version mismatch.
VersionMatches(version, v) == version = v

\* A check of unknown1 that warns for every byte that differs.
unknown1_warnings_each(unknown1) ==
    LET bad == {i \in 1..16 : unknown1[i] - (unknown1[i] % 16) # EXPECTED[i]}
    IN [i \in 1..Cardinality(bad) |-> "UnexpectedFooterFieldValue"]

\* The loop over unknown1: the first byte whose upper 4 bits differ from
\* EXPECTED raises UnexpectedFooterFieldValue and ends the loop.
unknown1_warnings(unknown1) ==
    IF \E i \in 1..16 : unknown1[i] - (unknown1[i] % 16) # EXPECTED[i]
    THEN <<"UnexpectedFooterFieldValue">> ELSE <<>>

\* FbxFooter::from_async_parser at position p: [res, warnings, footer]; res
\* is "panic" if one of the assertions on padding_len fails.
ReadFooter(bytes, v, p) ==
    LET unknown1 == Slice(bytes, p, 16)
        w1 == unknown1_warnings(unknown1)
        buf_start_pos == p + 16
        buf == Slice(bytes, buf_start_pos, 144)
        nz == FirstNonZero(SubSeq(buf, 129, 144))
        unknown3_pos == 128 + nz
        padding_len == unknown3_pos % 16
        unknown2 == SubSeq(buf, padding_len + 1, padding_len + 4)
        version == ULE(SubSeq(buf, padding_len + 5, padding_len + 8))
        unknown3 == SubSeq(buf, padding_len + 129, 144)
                        \o Slice(bytes, buf_start_pos + 144, padding_len)
        bad(res, ws) == [res |-> res, warnings |-> ws, footer |-> <<>>]
    IN IF ~Readable(bytes, p, 16) THEN bad("Io", <<>>)
       ELSE IF ~Readable(bytes, buf_start_pos, 144) THEN bad("Io", w1)
       ELSE IF nz = -1 THEN bad("BrokenFbxFooter", w1)
       ELSE IF ~(padding_len < 16 /\ unknown3_pos = padding_len + 128)
            THEN bad("panic", w1)
       ELSE IF SubSeq(buf, 1, padding_len) # Zeros(padding_len)
                 \/ unknown2 # Zeros(4)
                 \/ ~VersionMatches(version, v)
                 \/ SubSeq(buf, padding_len + 9, padding_len + 128) # Zeros(120)
            THEN bad("BrokenFbxFooter", w1)
       ELSE IF ~Readable(bytes, buf_start_pos + 144, padding_len) THEN bad("Io", w1)
       ELSE IF unknown3 # UNKNOWN3_EXPECTED THEN bad("BrokenFbxFooter", w1)
       ELSE [res |-> "Ok",
             warnings |->
                 IF padding_len # expected_padding_len(buf_start_pos)
                 THEN Append(w1, <<"InvalidFooterPaddingLength",
                                   expected_padding_len(buf_start_pos), padding_len>>)
                 ELSE w1,
             footer |-> [unknown1 |-> unknown1, padding_len |-> padding_len,
                         unknown2 |-> unknown2, fbx_version |-> version,
                         unknown3 |-> unknown3]]

\* Parser state: reader position, stack of open nodes, events emitted so far
\* (with the attributes the caller loaded), warnings, the end of the attribute
\* region of the node just started (-1 otherwise), and the parser's status.
ParserNew(p) ==
    [pos |-> p, stack |-> <<>>, events |-> <<>>, warnings |-> <<>>, attrs_end |-> -1,
     status |-> "Healthy", footer |-> "None"]

Event(kind, name, total_count) ==
    [kind |-> kind, name |-> name, total_count |-> total_count, attrs |-> <<>>]

Abort(st, err) == [st EXCEPT !.status = err]

\* Pops the innermost open node and emits NodeEnd.
EndNode(st, p, ws) ==
    [st EXCEPT !.pos = p, !.stack = SubSeq(@, 1, Len(@) - 1),
               !.events = Append(@, Event("NodeEnd", <<>>, 0)),
               !.warnings = @ \o ws, !.attrs_end = -1]

\* Parser::next_event
next_event(bytes, v, st) ==
    LET p == IF st.attrs_end > st.pos THEN st.attrs_end ELSE st.pos
        n == Len(st.stack)
        h == ReadNodeHeader(bytes, v, p)
        q == p + HeaderWidth(v)
        name == Slice(bytes, q, h.bytelen_name)
        f == ReadFooter(bytes, v, q)
    IN IF st.status = "Finished" THEN Abort(st, "AlreadyFinished")
       ELSE IF st.status # "Healthy" THEN Abort(st, "AlreadyAborted")
       ELSE IF n > 0 /\ st.stack[n].end_offset = p THEN EndNode(st, p, <<>>)
       ELSE IF ~Readable(bytes, p, HeaderWidth(v)) THEN Abort([st EXCEPT !.pos = p], "Io")
       ELSE IF is_node_end(h)
            THEN IF n = 0
                 THEN [st EXCEPT !.pos = q, !.status = "Finished", !.footer = f.res,
                                 !.events = Append(@, Event("EndOfFile", <<>>, 0)),
                                 !.warnings = @ \o f.warnings, !.attrs_end = -1]
                 ELSE EndNode(st, q,
                              IF st.stack[n].num_attributes # 0 /\ st.stack[n].children = 0
                              THEN <<"ExtraNodeEndMarker">> ELSE <<>>)
       ELSE IF ~Readable(bytes, q, h.bytelen_name) THEN Abort([st EXCEPT !.pos = q], "Io")
       ELSE IF ~ValidUtf8(name)
            THEN Abort([st EXCEPT !.pos = q + Len(name)], "InvalidNodeNameEncoding")
       ELSE [st EXCEPT
                !.pos = q + Len(name),
                !.stack = Append(IF n = 0 THEN @ ELSE [@ EXCEPT ![n].children = @ + 1],
                                 [end_offset |-> h.end_offset,
                                  num_attributes |-> h.num_attributes, children |-> 0]),
                !.events = Append(@, Event("NodeStart", name, h.num_attributes)),
                !.warnings = IF name = <<>> THEN Append(@, "EmptyNodeName") ELSE @,
                !.attrs_end = q + Len(name) + h.bytelen_attributes]

\* A caller that pulls events until EndOfFile and stops at the first error;
\* with load it loads every attribute of each started node with the direct
\* loader, without it it leaves the attribute cursors unused.
RECURSIVE Drain(_, _, _, _)
Drain(bytes, v, load, st) ==
    LET s1 == next_event(bytes, v, st)
        k == Len(s1.events)
        a == LoadAll(bytes, AttrCursor(s1.pos, s1.events[k].total_count), <<>>, <<>>)
        s2 == [s1 EXCEPT !.pos = a.c.pos, !.events[k].attrs = a.values,
                         !.warnings = @ \o a.warnings]
    IN IF s1.status # "Healthy" THEN s1
       ELSE IF load /\ s1.events[k].kind = "NodeStart"
            THEN IF a.res = "Ok" THEN Drain(bytes, v, load, s2) ELSE Abort(s2, a.res)
       ELSE Drain(bytes, v, load, s1)

\* any::from_seekable_reader followed by Drain: the final parser state.
Parse(bytes, load) ==
    LET h == FbxHeaderLoad(bytes)
    IN IF h.res # "Ok" THEN Abort(ParserNew(h.pos), h.res)
       ELSE Drain(bytes, h.version, load, ParserNew(h.pos))

\* ------------------------------------------------------------------------
\* Trees
\* ------------------------------------------------------------------------
\* A tree is the sequence of its nodes other than the root in depth-first
\* pre-order, each with its name, depth (1 for a child of the root) and
\* attribute values.
TreeNode(name, depth, attrs) == [attrs |-> attrs, depth |-> depth, name |-> name]

\* A first_child that finds children of the root only.
first_child_of_root(t, i) == IF i = 0 /\ 1 <= Len(t) THEN 1 ELSE 0

\* NodeHandle::first_child (0 for none; 0 is also the root)
first_child(t, i) ==
    IF i + 1 <= Len(t) /\ (i = 0 \/ t[i + 1].depth = t[i].depth + 1) THEN i + 1 ELSE 0

\* NodeHandle::next_sibling
next_sibling(t, i) ==
    LET S == {j \in (i + 1)..Len(t) :
                 /\ t[j].depth = t[i].depth
                 /\ \A k \in (i + 1)..(j - 1) : t[k].depth > t[i].depth}
    IN IF S = {} THEN 0 ELSE CHOOSE j \in S : TRUE

\* NodeHandle::parent
parent(t, i) ==
    LET S == {j \in 1..(i - 1) : t[j].depth = t[i].depth - 1}
    IN IF S = {} THEN 0 ELSE CHOOSE j \in S : \A k \in S : k <= j

\* The tree the tree loader builds from the events of a drained parser.
RECURSIVE TreeOfEvents(_, _, _)
TreeOfEvents(events, depth, acc) ==
    IF events = <<>> THEN acc
    ELSE LET e == Head(events)
         IN IF e.kind = "NodeStart"
            THEN TreeOfEvents(Tail(events), depth + 1,
                              Append(acc, TreeNode(e.name, depth + 1, e.attrs)))
            ELSE IF e.kind = "NodeEnd" THEN TreeOfEvents(Tail(events), depth - 1, acc)
            ELSE acc

\* Loader::load over the parser of the bytes: [res, tree, footer, warnings]
LoadTree(bytes) ==
    LET st == Parse(bytes, TRUE)
    IN [res |-> IF st.status = "Finished" THEN "Ok" ELSE st.status,
        tree |-> TreeOfEvents(st.events, 0, <<>>),
        footer |-> st.footer,
        warnings |-> st.warnings]

\* ------------------------------------------------------------------------
\* Writer::write_tree
\* ------------------------------------------------------------------------
\* The append call write_tree makes for an attribute value.
TreeAttrCall(attr) ==
    Call(CASE attr.ty = "Bool" -> "append_bool"
           [] attr.ty = "I16" -> "append_i16"
           [] attr.ty = "I32" -> "append_i32"
           [] attr.ty = "I64" -> "append_i64"
           [] attr.ty = "F32" -> "append_f32"
           [] attr.ty = "F64" -> "append_f64"
           [] attr.ty = "ArrBool" -> ArrayFromIter("bool")
           [] attr.ty = "ArrI32" -> ArrayFromIter("i32")
           [] attr.ty = "ArrI64" -> ArrayFromIter("i64")
           [] attr.ty = "ArrF32" -> ArrayFromIter("f32")
           [] attr.ty = "ArrF64" -> ArrayFromIter("f64")
           [] attr.ty = "Binary" -> "append_binary_direct"
           [] attr.ty = "String" -> "append_string_direct",
         attr.val, "None", FALSE, 0)

\* for attr in current.attributes() { ... .await? }: [w, res]
RECURSIVE AppendTreeAttrs(_, _)
AppendTreeAttrs(w, attrs) ==
    IF attrs = <<>> THEN [w |-> w, res |-> "Ok"]
    ELSE LET r == append(w, TreeAttrCall(Head(attrs)))
         IN IF r.res # "Ok" THEN r ELSE AppendTreeAttrs(r.w, Tail(attrs))

RECURSIVE WriteTreeNode(_, _, _, _)
RECURSIVE WriteTreeNext(_, _, _, _, _)

\* The body of write_tree's loop 'all for the node current.
WriteTreeNode(w, v, t, current) ==
    LET n == new_node(w, v, t[current].name)
        a == AppendTreeAttrs(n.w, t[current].attrs)
    IN IF n.res # "Ok" THEN n
       ELSE IF a.res # "Ok" THEN a
       ELSE WriteTreeNext(a.w, v, t, current, TRUE)

\* write_tree's loop 'next.
WriteTreeNext(w, v, t, current, visit_child) ==
    LET c == close_node(w, v)
    IN IF visit_child /\ first_child(t, current) # 0
       THEN WriteTreeNode(w, v, t, first_child(t, current))
       ELSE IF c.res # "Ok" THEN c
       ELSE IF next_sibling(t, current) # 0
       THEN WriteTreeNode(c.w, v, t, next_sibling(t, current))
       ELSE IF parent(t, current) = 0 THEN c
       ELSE WriteTreeNext(c.w, v, t, parent(t, current), FALSE)

\* Writer::write_tree: [w, res]
write_tree(w, v, t) ==
    IF first_child(t, 0) = 0 THEN [w |-> w, res |-> "Ok"]
    ELSE WriteTreeNode(w, v, t, first_child(t, 0))

\* One attribute value of each of the thirteen types.
TreeAttrValues ==
    {[ty |-> "Bool", val |-> TRUE],
     [ty |-> "I16", val |-> Sample("i16")[1]],
     [ty |-> "I32", val |-> Sample("i32")[2]],
     [ty |-> "I64", val |-> Sample("i64")[1]],
     [ty |-> "F32", val |-> Sample("f32")[1]],
     [ty |-> "F64", val |-> Sample("f64")[2]],
     [ty |-> "ArrBool", val |-> Sample("bool")],
     [ty |-> "ArrI32", val |-> Sample("i32")],
     [ty |-> "ArrI64", val |-> Sample("i64")],
     [ty |-> "ArrF32", val |-> Sample("f32")],
     [ty |-> "ArrF64", val |-> Sample("f64")],
     [ty |-> "Binary", val |-> <<1, 2>>],
     [ty |-> "String", val |-> <<72, 105>>]}

\* The trees of at most MaxTreeNodes nodes with names of ShortNames and at
\* most MaxTreeAttrs attributes per node.
Trees ==
    LET AttrLists == UNION {[1..k -> TreeAttrValues] : k \in 0..MaxTreeAttrs}
        Nodes == [attrs : AttrLists, depth : 1..MaxTreeNodes, name : ShortNames]
    IN UNION {{t \in [1..n -> Nodes] :
                  \A i \in 1..n : t[i].depth <= (IF i = 1 THEN 1 ELSE t[i - 1].depth + 1)} :
              n \in 0..MaxTreeNodes}

InitTree == \E v \in {V7_4, V7_5} : \E t \in Trees : InitWith(v, t)

\* writer.write_tree(tree)
WriteTree ==
    /\ phase = "writing"
    /\ calls = <<>>
    /\ LET r == write_tree(W, fbx_version, tree)
       IN /\ SetW(r.w)
          /\ calls' = <<[op |-> "write_tree", res |-> r.res]>>
          /\ last' = [op |-> "write_tree", res |-> r.res, start |-> pos]
    /\ attrs_live' = FALSE
    /\ UNCHANGED <<fbx_version, phase, track, used, tree>>

\* A tree written with write_tree and finalized.
NextTree ==
    \/ WriteTree
    \/ Finalize

SpecTree == InitTree /\ [][NextTree]_vars

\* ------------------------------------------------------------------------
\* Properties of written files
\* ------------------------------------------------------------------------
\* C1: a tree written with write_tree and finalized with the default footer
\* loads back as a tree strictly equal to the original, with an Ok footer and
\* no warning.
C1_TreeRoundTrip ==
    (phase = "finalized" /\ calls = <<[op |-> "write_tree", res |-> "Ok"]>>) =>
        /\ LoadTree(sink).res = "Ok"
        /\ LoadTree(sink).tree = tree
        /\ LoadTree(sink).footer = "Ok"
        /\ LoadTree(sink).warnings = <<>>

\* The number of append calls at the head of a sequence of calls.
RECURSIVE LeadingAppends(_)
LeadingAppends(cs) ==
    IF cs = <<>> \/ Head(cs).op # "append" THEN 0 ELSE 1 + LeadingAppends(Tail(cs))

\* The events a sequence of writer calls stands for.
RECURSIVE EventsOfCalls(_)
EventsOfCalls(cs) ==
    IF cs = <<>> THEN <<>>
    ELSE IF Head(cs).op = "new_node"
    THEN <<[kind |-> "NodeStart", name |-> Head(cs).name,
            total_count |-> LeadingAppends(Tail(cs))]>> \o EventsOfCalls(Tail(cs))
    ELSE IF Head(cs).op = "close_node"
    THEN <<[kind |-> "NodeEnd", name |-> <<>>, total_count |-> 0]>>
             \o EventsOfCalls(Tail(cs))
    ELSE EventsOfCalls(Tail(cs))

\* Kind, name and total_count of each event.
EventShapes(events) ==
    [i \in 1..Len(events) |->
        [kind |-> events[i].kind, name |-> events[i].name,
         total_count |-> events[i].total_count]]

\* C2: for a balanced sequence of successful new_node / append / close_node
\* calls followed by finalize, the parser emits one NodeStart per new_node
\* (same name, total_count the number of appends), one NodeEnd per close_node,
\* in call order, then EndOfFile with an Ok footer, without a warning, whether
\* the caller loads the attributes or leaves the cursors unused.
C2_EventOrder ==
    (phase = "finalized" /\ used.fails = 0) =>
        \A load \in BOOLEAN :
            /\ Parse(sink, load).status = "Finished"
            /\ EventShapes(Parse(sink, load).events) =
                   EventsOfCalls(calls)
                       \o <<[kind |-> "EndOfFile", name |-> <<>>, total_count |-> 0]>>
            /\ Parse(sink, load).footer = "Ok"
            /\ Parse(sink, load).warnings = <<>>

\* C8: an i32 array appended with encoding Zlib as the only attribute of a
\* node is returned unchanged by the parser's array loader, and the bytelen
\* of its header is the length of the complete compressed stream.
C8_ZlibRoundTrip ==
    (/\ phase = "finalized"
     /\ Len(calls) = 3
     /\ calls[2].op = "append"
     /\ calls[2].res = "Ok"
     /\ calls[2].call.m = ArrayFromIter("i32")
     /\ calls[2].call.enc = "Zlib") =>
        LET raw == Flatten([i \in 1..Len(calls[2].call.val) |->
                               into_bytes("i32", calls[2].call.val[i])])
            body == MAGIC_LEN + 4 + HeaderWidth(fbx_version) + Len(calls[1].name)
        IN /\ Parse(sink, TRUE).status = "Finished"
           /\ Parse(sink, TRUE).events[1].attrs =
                  <<[ty |-> "ArrI32", val |-> calls[2].call.val]>>
           /\ ULE(Slice(sink, body + 9, 4)) = Len(ZlibStream(raw))

\* ------------------------------------------------------------------------
\* Footers: written by finalize, damaged in one field, read back
\* ------------------------------------------------------------------------
\* Names of 0..MaxPadName bytes: the footer starts at every offset mod 16.
PadNames == {[i \in 1..n |-> 65] : n \in 0..MaxPadName}

\* The default footer, a footer with its own unknown1 and the footers with a
\* forced padding length.
Footers == {DefaultFooter, CustomFooter} \cup {ForcedFooter(len) : len \in 0..15}

\* One node in front of the footer.
NewPadNode == used.nodes = 0 /\ NewNodeIn(PadNames)

FinalizeAny == FinalizeWith(Footers)

\* Offset in the finalized file of each field of the footer.
FooterFieldStart(field) ==
    CASE field = "padding" -> FooterPadStart
      [] field = "unknown2" -> FooterPadStart + FooterPadLen
      [] field = "version" -> FooterPadStart + FooterPadLen + 4
      [] field = "filler" -> FooterPadStart + FooterPadLen + 8
      [] field = "unknown3" -> FooterPadStart + FooterPadLen + 128

\* The bytes of a field that get damaged, as offsets into the field.
DamagedOffsets(field) ==
    CASE field = "padding" -> {0, FooterPadLen - 1} \cap 0..(FooterPadLen - 1)
      [] field = "unknown2" -> {0, 3}
      [] field = "version" -> {0, 3}
      [] field = "filler" -> {0, 104, 111, 119}
      [] field = "unknown3" -> {0, 1, 15}

\* The file is damaged after it was written: one byte of one footer field
\* gets another value, or the whole of unknown3 is zeroed.
Corrupt ==
    /\ phase = "finalized"
    /\ \/ \E field \in {"padding", "unknown2", "version", "filler", "unknown3"} :
           \E off \in DamagedOffsets(field) :
           \E val \in {0, (sink[FooterFieldStart(field) + off + 1] + 1) % 256} :
              /\ val # sink[FooterFieldStart(field) + off + 1]
              /\ sink' = WriteAt(sink, FooterFieldStart(field) + off, <<val>>)
              /\ last' = [last EXCEPT !.op = "corrupt", !.res = field, !.n = off]
       \/ /\ sink' = WriteAt(sink, FooterFieldStart("unknown3"), Zeros(16))
          /\ last' = [last EXCEPT !.op = "corrupt", !.res = "unknown3", !.n = 16]
    /\ phase' = "corrupted"
    /\ UNCHANGED <<pos, open_nodes, fbx_version, attrs_live, track, calls, used, tree>>

\* The parser reads the footer where the node end marker of the implicit
\* root ends.
ParseFooter ==
    /\ phase \in {"finalized", "corrupted"}
    /\ phase' = "parsed"
    /\ last' = [op |-> "read_footer", damaged |-> phase = "corrupted",
                field |-> IF phase = "corrupted" THEN last.res ELSE "none",
                off |-> last.n, end0 |-> last.end0, footer |-> last.footer,
                r |-> ReadFooter(sink, fbx_version,
                                 last.end0 + HeaderWidth(fbx_version))]
    /\ UNCHANGED <<sink, pos, open_nodes, fbx_version, attrs_live, track, calls,
                   used, tree>>

NextFooter ==
    \/ NewPadNode
    \/ CloseNode
    \/ FinalizeAny
    \/ Corrupt
    \/ ParseFooter

SpecFooter == Init /\ [][NextFooter]_vars

\* The footer fields a finalize with the given footer appends when it writes
\* pad bytes of padding.
FooterFields(v, footer, pad) ==
    Zeros(HeaderWidth(v)) \o footer.unknown1 \o Zeros(pad) \o footer.unknown2
        \o LEBytes(v, 4) \o Zeros(120) \o footer.unknown3

\* C13: a successful finalize appends the all-zero node header of the
\* implicit root (13 bytes below 7500, 25 from 7500 on), unknown1, the zero
\* padding, unknown2, the version of the file header as little-endian u32,
\* 120 zero bytes and unknown3, and nothing else; without any node at version
\* 7400 the output is the magic, the version and these fields.
C13_FooterLayout ==
    [][(phase = "writing" /\ phase' = "finalized") =>
          LET pad == Len(sink') - Len(sink) - HeaderWidth(fbx_version)
                         - (16 + 4 + 4 + 120 + 16)
          IN /\ HeaderWidth(fbx_version) = IF fbx_version < 7500 THEN 13 ELSE 25
             /\ pad >= 0
             /\ last'.footer.padding_len.forced => pad = last'.footer.padding_len.len
             /\ sink' = sink \o FooterFields(fbx_version, last'.footer, pad)
             /\ ULE(Slice(sink', MAGIC_LEN, 4)) = fbx_version
             /\ (used.nodes = 0 /\ fbx_version = 7400) =>
                    /\ Len(MAGIC) = 23
                    /\ sink' = MAGIC \o LEBytes(7400, 4)
                                   \o FooterFields(7400, last'.footer, pad)]_vars

C13_Witness ==
    /\ phase = "finalized"
    /\ fbx_version = 7400
    /\ used.nodes = 0
    /\ last.footer = CustomFooter
    /\ Len(sink) = 208

\* The padding warnings among the warnings of the last footer read.
PaddingWarnings ==
    {i \in 1..Len(last.r.warnings) :
        Len(last.r.warnings[i]) = 3 /\ last.r.warnings[i][1] = "InvalidFooterPaddingLength"}

\* C15: a well-formed footer with k padding bytes is read with result Ok and
\* padding_len = k for every k in 0..15 and every start position; the
\* warning InvalidFooterPaddingLength(expected, k) is raised exactly if k
\* differs from expected = (-q) mod 16 for the position q just after
\* unknown1; a file finalized with the default padding raises none.
C15_PaddingTolerance ==
    (phase = "parsed" /\ ~last.damaged) =>
        LET k == FooterPadLen
            expected == (16 - (FooterPadStart % 16)) % 16
        IN /\ k \in 0..15
           /\ last.r.res = "Ok"
           /\ last.r.footer.padding_len = k
           /\ (PaddingWarnings # {}) <=> (k # expected)
           /\ \A i \in PaddingWarnings :
                  last.r.warnings[i] = <<"InvalidFooterPaddingLength", expected, k>>
           /\ last.footer.padding_len = PaddingDefault => PaddingWarnings = {}

C15_Witness ==
    /\ phase = "parsed"
    /\ ~last.damaged
    /\ last.footer = ForcedFooter(15)
    /\ FooterPadStart % 16 = 0
    /\ last.r.res = "Ok"
    /\ last.r.footer.padding_len = 15
    /\ last.r.warnings = <<(<<"InvalidFooterPaddingLength", 0, 15>>)>>

\* C16: the footer reader returns BrokenFbxFooter when a padding byte is not
\* zero, unknown2 is not four zero bytes, the footer's version differs from
\* the header's, one of the 120 filler bytes is not zero, the last 16 bytes
\* read are all zero or unknown3 is not the expected trailer; its assertions
\* on padding_len never fail.
C16_FooterValidation ==
    phase = "parsed" =>
        /\ last.r.res # "panic"
        /\ last.damaged => last.r.res = "BrokenFbxFooter"

C16_Witness ==
    /\ phase = "parsed"
    /\ last.damaged
    /\ last.field = "filler"
    /\ last.off = 119
    /\ FooterPadLen = 15
    /\ last.r.res = "BrokenFbxFooter"

\* ------------------------------------------------------------------------
\* Node headers: written at a version, read back at the same version
\* ------------------------------------------------------------------------
\* Versions of major 7 below, at and above the change of the header width.
HeaderVersions == {7100, V7_4, 7499, V7_5, 7700}

\* 0, 1, 2^32 - 1, 2^32, 2^32 + 1, 2^63 and 2^64 - 1
U64Samples ==
    {Zeros(8), <<1>> \o Zeros(7),
     <<255, 255, 255, 255, 0, 0, 0, 0>>, <<0, 0, 0, 0, 1, 0, 0, 0>>,
     <<1, 0, 0, 0, 1, 0, 0, 0>>, Zeros(7) \o <<128>>,
     <<255, 255, 255, 255, 255, 255, 255, 255>>}

NodeHeaders ==
    [end_offset : U64Samples, num_attributes : U64Samples,
     bytelen_attributes : U64Samples, bytelen_name : {0, 3, 255}]

InitHeader == \E v \in HeaderVersions : InitWith(v, NoTree)

\* write_node_header with one of the headers.
WriteHeader ==
    /\ phase = "writing"
    /\ \E h \in NodeHeaders :
        LET r == write_node_header_u64(W, fbx_version, h)
        IN /\ SetW(r.w)
           /\ last' = [op |-> "write_node_header", res |-> r.res, header |-> h,
                       start |-> pos]
    /\ phase' = "header_written"
    /\ UNCHANGED <<fbx_version, attrs_live, track, calls, used, tree>>

\* The node header reader on the bytes of a header that was written.
ReadHeader ==
    /\ phase = "header_written"
    /\ last.res = "Ok"
    /\ phase' = "header_read"
    /\ last' = [op |-> "read_node_header", res |-> "Ok", header |-> last.header,
                start |-> last.start,
                r |-> ReadNodeHeaderU64(sink, fbx_version, last.start)]
    /\ UNCHANGED <<sink, pos, open_nodes, fbx_version, attrs_live, track, calls,
                   used, tree>>

NextHeader ==
    \/ WriteHeader
    \/ ReadHeader

SpecHeader == InitHeader /\ [][NextHeader]_vars

\* A u64 that does not fit 32 bits.
ExceedsU32(x) == SubSeq(x, 5, 8) # Zeros(4)

\* The fields of the header of the last write_node_header, in wire order.
HeaderFields64 ==
    <<last.header.end_offset, last.header.num_attributes,
      last.header.bytelen_attributes>>

\* C17: below version 7500 write_node_header fails with FileTooLarge if
\* end_offset exceeds 2^32 - 1, otherwise with TooManyAttributes if
\* num_attributes does, otherwise with AttributeTooLong if bytelen_attributes
\* does, and every field it has written is the untruncated value of a field
\* that fits; from 7500 on it produces none of the three errors.
C17_NarrowOverflow ==
    last.op = "write_node_header" =>
        IF fbx_version < 7500
        THEN /\ last.res =
                    IF ExceedsU32(last.header.end_offset) THEN "FileTooLarge"
                    ELSE IF ExceedsU32(last.header.num_attributes)
                         THEN "TooManyAttributes"
                    ELSE IF ExceedsU32(last.header.bytelen_attributes)
                         THEN "AttributeTooLong"
                    ELSE "Ok"
             /\ \A i \in 1..3 :
                    Len(sink) >= last.start + 4 * i =>
                        /\ ~ExceedsU32(HeaderFields64[i])
                        /\ Slice(sink, last.start + 4 * (i - 1), 4) \o Zeros(4)
                               = HeaderFields64[i]
        ELSE last.res \notin {"FileTooLarge", "TooManyAttributes", "AttributeTooLong"}

C17_Witness ==
    /\ last.op = "write_node_header"
    /\ fbx_version = 7499
    /\ last.res = "TooManyAttributes"
    /\ last.header.end_offset = <<255, 255, 255, 255, 0, 0, 0, 0>>
    /\ last.header.num_attributes = <<0, 0, 0, 0, 1, 0, 0, 0>>
    /\ Len(sink) = last.start + 4

\* The fields of a header fit the width of version v.
FitsWidth(v, h) ==
    v < 7500 => (/\ ~ExceedsU32(h.end_offset)
                 /\ ~ExceedsU32(h.num_attributes)
                 /\ ~ExceedsU32(h.bytelen_attributes))

\* C18: a node header whose fields fit the width of the version is written
\* as 13 bytes below 7500 and as 25 bytes from 7500 on, and the node header
\* reader at the same version consumes exactly these bytes and returns the
\* same four field values.
C18_HeaderRoundTrip ==
    /\ (last.op = "write_node_header" /\ FitsWidth(fbx_version, last.header)) =>
           /\ last.res = "Ok"
           /\ Len(sink) - last.start = IF fbx_version < 7500 THEN 13 ELSE 25
           /\ pos = Len(sink)
    /\ last.op = "read_node_header" =>
           /\ FitsWidth(fbx_version, last.header)
           /\ last.r.pos = Len(sink)
           /\ last.r.header = last.header

C18_Witness ==
    /\ last.op = "read_node_header"
    /\ fbx_version = V7_4
    /\ last.header.end_offset = <<255, 255, 255, 255, 0, 0, 0, 0>>
    /\ last.header.bytelen_name = 255
    /\ last.r.header = last.header
    /\ last.r.pos = last.start + 13

\* ------------------------------------------------------------------------
\* Position reader: SeekableReader over a cursor
\* ------------------------------------------------------------------------
\* SeekableReader::new over a Cursor on the bytes 0, 1, 2, ...: sink is the
\* source, pos is both the position of the reader and that of the cursor.
InitReader ==
    /\ fbx_version = V7_4
    /\ sink = [i \in 1..SourceLen |-> i - 1]
    /\ pos = 0
    /\ open_nodes = <<>>
    /\ attrs_live = FALSE
    /\ phase = "reading"
    /\ track = <<>>
    /\ calls = <<>>
    /\ last = [op |-> "new"]
    /\ used = [nodes |-> 0, attrs |-> 0, fails |-> 0]
    /\ tree = NoTree

\* reader.read(buf) with a buffer of n bytes: poll_read adds the number of
\* bytes the cursor returned to the position.
ReaderRead ==
    /\ phase = "reading"
    /\ Len(calls) < MaxReaderCalls
    /\ \E n \in 1..3 :
        LET got == IF pos >= Len(sink) THEN 0
                   ELSE IF pos + n > Len(sink) THEN Len(sink) - pos ELSE n
        IN /\ pos' = pos + got
           /\ last' = [op |-> "read", res |-> "Ok", p0 |-> pos, target |-> pos + got]
           /\ calls' = Append(calls, [op |-> "read", n |-> n])
    /\ UNCHANGED <<sink, open_nodes, fbx_version, attrs_live, phase, track, used, tree>>

\* reader.skip_to(t) for a position t of the source.
ReaderSkipTo ==
    /\ phase = "reading"
    /\ Len(calls) < MaxReaderCalls
    /\ \E t \in 0..Len(sink) :
        /\ pos' = skip_to(pos, t)
        /\ last' = [op |-> "skip_to", res |-> "Ok", p0 |-> pos, target |-> t]
        /\ calls' = Append(calls, [op |-> "skip_to", n |-> t])
    /\ UNCHANGED <<sink, open_nodes, fbx_version, attrs_live, phase, track, used, tree>>

NextReader ==
    \/ ReaderRead
    \/ ReaderSkipTo

SpecReader == InitReader /\ [][NextReader]_vars

\* C19: a successful skip_to(t) from position p to a target t > p within the
\* source skips exactly t - p bytes and leaves the position at t.
C19_ForwardSkip ==
    (/\ last.op = "skip_to"
     /\ last.res = "Ok"
     /\ last.target > last.p0
     /\ last.target <= Len(sink)) =>
        /\ pos - last.p0 = last.target - last.p0
        /\ pos = last.target

\* C20: skip_to(t) with t at or before the position fails with BackwardSkip,
\* consumes no byte and leaves the position unchanged.
C20_BackwardSkip ==
    (last.op = "skip_to" /\ last.target <= last.p0) =>
        /\ last.res = "BackwardSkip"
        /\ pos = last.p0

\* ---------------------------------------------------------------------
\* SeekableReader: the cached position under read, consume and skip_distance.
\* sink is the content of the inner cursor, pos the cached position, calls the
\* constructor followed by the calls made, each with the count it returned;
\* last.inner is the position of the inner cursor.

\* SeekableReader::new / with_offset: the offsets the readers start with.
ReaderOffsets == {0, 5}

\* The buffer sizes handed to read, the amounts consumed and the distances
\* skipped.
ReadSizes == 1..3
ConsumeAmounts == 1..2
SkipDistances == 0..3

\* poll_read that counts the buffer length whatever the inner reader returned.
poll_read_position_eager(position, res, n, buflen) == position + buflen

\* SeekableReader::poll_read: the position grows by n when the inner reader
\* returned Ok(n); a Pending inner reader returns early through ready!, an
\* Err leaves the position alone.
poll_read_position(position, res, n, buflen) ==
    IF res = "Ok" THEN position + n ELSE position

\* The number of bytes a cursor at inner returns into a buffer of n bytes.
CursorRead(bytes, inner, n) ==
    IF inner >= Len(bytes) THEN 0
    ELSE IF inner + n > Len(bytes) THEN Len(bytes) - inner ELSE n

InitPosition ==
    /\ fbx_version = V7_4
    /\ sink = [i \in 1..SourceLen |-> i - 1]
    /\ \E o \in ReaderOffsets :
        /\ pos = o
        /\ calls = <<[op |-> IF o = 0 THEN "new" ELSE "with_offset",
                      res |-> "Ok", count |-> o]>>
        /\ last = [op |-> "new", res |-> "Ok", p0 |-> o, inner |-> 0]
    /\ open_nodes = <<>>
    /\ attrs_live = FALSE
    /\ phase = "reading"
    /\ track = <<>>
    /\ used = [nodes |-> 0, attrs |-> 0, fails |-> 0]
    /\ tree = NoTree

PosStep(op, res, count, inner) ==
    /\ last' = [op |-> op, res |-> res, p0 |-> pos, inner |-> inner]
    /\ calls' = Append(calls, [op |-> op, res |-> res, count |-> count])
    /\ UNCHANGED <<sink, open_nodes, fbx_version, attrs_live, phase, track, used, tree>>

PosGuard ==
    /\ phase = "reading"
    /\ Len(calls) <= MaxReaderCalls

\* reader.read(buf) that the inner reader completes with Ok(got).
PosRead ==
    /\ PosGuard
    /\ \E n \in ReadSizes :
        LET got == CursorRead(sink, last.inner, n)
        IN /\ pos' = poll_read_position(pos, "Ok", got, n)
           /\ PosStep("read", "Ok", got, last.inner + got)

\* reader.read(buf) where the inner reader returns an error or is still
\* pending: no byte is delivered.
PosReadFails ==
    /\ PosGuard
    /\ \E n \in ReadSizes, res \in {"Err", "Pending"} :
        /\ pos' = poll_read_position(pos, res, 0, n)
        /\ PosStep("read", res, 0, last.inner)

\* reader.consume(amt) of bytes the inner buffer holds.
PosConsume ==
    /\ PosGuard
    /\ \E amt \in ConsumeAmounts :
        /\ last.inner + amt <= Len(sink)
        /\ pos' = pos + amt
        /\ PosStep("consume", "Ok", amt, last.inner + amt)

\* reader.skip_distance(d): one seek of the inner reader by d (d is below
\* i64::MAX, so the loop runs once), then advance(d).
PosSkipDistance ==
    /\ PosGuard
    /\ \E d \in SkipDistances :
        /\ pos' = skip_distance(pos, d)
        /\ PosStep("skip_distance", "Ok", d, last.inner + d)

\* reader.skip_distance(d) whose seek fails: the ? returns before advance.
PosSkipFails ==
    /\ PosGuard
    /\ \E d \in SkipDistances \ {0} :
        /\ pos' = pos
        /\ PosStep("skip_distance", "Err", 0, last.inner)

NextPosition ==
    \/ PosRead
    \/ PosReadFails
    \/ PosConsume
    \/ PosSkipDistance
    \/ PosSkipFails

SpecPosition == InitPosition /\ [][NextPosition]_vars

RECURSIVE SumCounts(_)
SumCounts(cs) ==
    IF cs = <<>> THEN 0
    ELSE (IF Head(cs).res = "Ok" THEN Head(cs).count ELSE 0) + SumCounts(Tail(cs))

\* C21: the position of a SeekableReader is its offset plus the byte counts
\* of the successful reads, the consumed amounts and the skipped distances;
\* a failed or pending call leaves it unchanged, and it never decreases.
C21_PositionTracking ==
    /\ pos = SumCounts(calls)
    /\ pos >= last.p0
    /\ last.res \in {"Err", "Pending"} => pos = last.p0

C21_Witness ==
    /\ calls[1].op = "with_offset"
    /\ \E i, j, k \in 2..Len(calls) :
        /\ calls[i].op = "read" /\ calls[i].res = "Ok" /\ calls[i].count > 1
        /\ calls[j].op = "skip_distance" /\ calls[j].res = "Ok" /\ calls[j].count > 0
        /\ calls[k].op = "read" /\ calls[k].res \in {"Err", "Pending"}
    /\ last.op = "read" /\ last.res = "Pending"
    /\ pos > calls[1].count

\* ---------------------------------------------------------------------
\* Typed reads: the futures of the reader! and reader8! macros over a source
\* that delivers any number of bytes per poll_read.
\* sink is the source, pos the number of source bytes delivered, last the
\* future being polled (its width, its read count and its buffer), calls the
\* futures that completed.

\* Longest source of a typed read, the futures awaited on it one after the
\* other, and the Pending results while one future runs.
TypedSourceLen == 18
MaxTypedReads == 2
MaxPendings == 1

\* size_of::<T>() for u8/i8, u16/i16, u32/i32/f32, u64/i64/f64 and i128.
TypedWidths == {1, 2, 4, 8, 16}

\* BO::read_uN(buffer) with BO = LittleEndian: a number for the narrow types,
\* the bytes from the most significant down for the wide ones.
read_le(buffer) ==
    IF Len(buffer) <= 2 THEN ULE(buffer) ELSE [bits |-> Rev(buffer)]

\* poll_read into the start of the buffer, whatever was read before.
poll_read_at_start(buffer, read, chunk) == WriteAt(buffer, 0, chunk)

\* poll_read(cx, &mut buffer[read..]) that delivered chunk.
poll_read_into(buffer, read, chunk) == WriteAt(buffer, read, chunk)

\* A poll that takes the buffer as it is when the source is at its end.
after_read_lenient(read, n, bytes) ==
    IF n = 0 THEN "Ok"
    ELSE IF read + n < bytes THEN "Running" ELSE "Ok"

\* The rest of one loop iteration after poll_read returned Ok(n): n == 0 is
\* UnexpectedEof; read += n; the loop goes on while read < bytes.
after_read(read, n, bytes) ==
    IF n = 0 THEN "UnexpectedEof"
    ELSE IF read + n < bytes THEN "Running" ELSE "Ok"

NoFuture == [op |-> "none", res |-> "Ok"]

\* ReadT::new(reader): buffer of zeros, read = 0.
NewFuture(w, p) ==
    [op |-> "read", width |-> w, read |-> 0, buffer |-> Zeros(w),
     res |-> "Running", p0 |-> p, pendings |-> 0]

InitTyped ==
    /\ fbx_version = V7_4
    /\ \E len \in 0..TypedSourceLen : sink = [i \in 1..len |-> i]
    /\ pos = 0
    /\ open_nodes = <<>>
    /\ attrs_live = FALSE
    /\ phase = "typed"
    /\ track = <<>>
    /\ calls = <<>>
    /\ last = NoFuture
    /\ used = [nodes |-> 0, attrs |-> 0, fails |-> 0]
    /\ tree = NoTree

TypedUnchanged == UNCHANGED <<sink, open_nodes, fbx_version, attrs_live, phase, track, used, tree>>

\* reader.read_T(): a new future over the reader; the previous one completed.
TypedStart ==
    /\ phase = "typed"
    /\ last.res \notin {"Running", "Pending"}
    /\ Len(calls) < MaxTypedReads
    /\ \E w \in TypedWidths : last' = NewFuture(w, pos)
    /\ UNCHANGED <<pos, calls>>
    /\ TypedUnchanged

\* The value or error a completed future returns.
Completed(f) ==
    [width |-> f.width, res |-> f.res, p0 |-> f.p0, read |-> f.read,
     value |-> IF f.res = "Ok" THEN read_le(f.buffer) ELSE <<>>]

\* One iteration of the loop in poll: the source delivers n bytes, from 0 at
\* its end up to the length of the slice it was handed.
TypedPollRead ==
    /\ phase = "typed"
    /\ last.res \in {"Running", "Pending"}
    /\ \E n \in 0..(last.width - last.read) :
        /\ IF pos >= Len(sink) THEN n = 0 ELSE n >= 1 /\ pos + n <= Len(sink)
        /\ LET chunk == Slice(sink, pos, n)
               res == after_read(last.read, n, last.width)
               f == [last EXCEPT !.buffer = poll_read_into(@, last.read, chunk),
                                 !.read = @ + n,
                                 !.res = res]
           IN /\ pos' = pos + n
              /\ last' = f
              /\ calls' = IF res = "Running" THEN calls ELSE Append(calls, Completed(f))
    /\ TypedUnchanged

\* poll_read returns Pending: ready_ok! returns Pending out of poll, and the
\* future keeps its buffer and its read count for the next poll.
TypedPending ==
    /\ phase = "typed"
    /\ last.res \in {"Running", "Pending"}
    /\ last.pendings < MaxPendings
    /\ last' = [last EXCEPT !.res = "Pending", !.pendings = @ + 1]
    /\ UNCHANGED <<pos, calls>>
    /\ TypedUnchanged

\* poll_read returns an error: ready_ok! returns it out of poll.
TypedSourceErr ==
    /\ phase = "typed"
    /\ last.res \in {"Running", "Pending"}
    /\ LET f == [last EXCEPT !.res = "Err"]
       IN /\ last' = f
          /\ calls' = Append(calls, Completed(f))
    /\ UNCHANGED pos
    /\ TypedUnchanged

NextTyped ==
    \/ TypedStart
    \/ TypedPollRead
    \/ TypedPending
    \/ TypedSourceErr

SpecTyped == InitTyped /\ [][NextTyped]_vars

\* C22: however the source cuts its bytes into chunks and however often it
\* is pending, a read_T future of width 2, 4, 8 or 16 that completes returns
\* the little-endian value of the next w source bytes and has consumed
\* exactly w bytes.
C22_ChunkedRead ==
    \A i \in 1..Len(calls) :
        (calls[i].res = "Ok" /\ calls[i].width \in {2, 4, 8, 16}) =>
            /\ calls[i].value = read_le(Slice(sink, calls[i].p0, calls[i].width))
            /\ calls[i].read = calls[i].width
            /\ (i = Len(calls) /\ last.res = "Ok") => pos = calls[i].p0 + calls[i].width

\* A 16-byte read completed after the source delivered it in several chunks
\* with a Pending in between.
C22_Witness ==
    /\ last.op = "read" /\ last.res = "Ok" /\ last.width = 16
    /\ last.pendings = MaxPendings
    /\ last.p0 = 2
    /\ pos = last.p0 + 16
    /\ calls[Len(calls)].value = [bits |-> Rev(Slice(sink, 2, 16))]

\* C23: a source that ends before sizeof(T) bytes were accumulated makes
\* read_T fail with UnexpectedEof, also after some bytes were received; no
\* value is built from fewer than sizeof(T) bytes.
C23_ShortRead ==
    \A i \in 1..Len(calls) :
        /\ (calls[i].p0 + calls[i].width > Len(sink) /\ calls[i].res # "Err")
               => calls[i].res = "UnexpectedEof"
        /\ calls[i].res = "Ok" => calls[i].read = calls[i].width

\* An 8-byte read that received 3 bytes and then met the end of the source.
C23_Witness ==
    /\ last.op = "read" /\ last.res = "UnexpectedEof"
    /\ last.width = 8 /\ last.read = 3
    /\ pos = Len(sink)

\* ---------------------------------------------------------------------
\* FbxHeader::load over inputs with and without the magic.
\* sink is the input of the cursor, pos the cursor position, last the result.

\* Versions written behind the magic.
MagicVersions == {<<232, 28, 0, 0>>, <<76, 29, 0, 0>>, <<4, 3, 2, 1>>, <<0, 0, 0, 127>>}

\* The magic with byte i (1-based; 0 for none) replaced by b.
DamagedMagic(i, b) == [k \in 1..MAGIC_LEN |-> IF k = i THEN b ELSE MAGIC[k]]

\* Inputs: a magic, damaged or not, a version and two further bytes, cut
\* anywhere.
MagicInputs ==
    {Slice(DamagedMagic(i, b) \o v \o <<0, 1>>, 0, len) :
        i \in 0..MAGIC_LEN, b \in {0, 255}, v \in MagicVersions,
        len \in 0..(MAGIC_LEN + VERSION_LEN + 2)}

InitMagic ==
    /\ fbx_version = V7_4
    /\ sink \in MagicInputs
    /\ pos = 0
    /\ open_nodes = <<>>
    /\ attrs_live = FALSE
    /\ phase = "header"
    /\ track = <<>>
    /\ calls = <<>>
    /\ last = [op |-> "new"]
    /\ used = [nodes |-> 0, attrs |-> 0, fails |-> 0]
    /\ tree = NoTree

\* FbxHeader::load(&mut cursor)
LoadHeader ==
    /\ phase = "header"
    /\ LET h == FbxHeader_load(sink)
       IN /\ pos' = h.pos
          /\ last' = [op |-> "load", res |-> h.res, version |-> h.version]
    /\ phase' = "loaded"
    /\ UNCHANGED <<sink, open_nodes, fbx_version, attrs_live, track, calls, used, tree>>

NextMagic == LoadHeader

SpecMagic == InitMagic /\ [][NextMagic]_vars

\* C24: FbxHeader::load fails with MagicNotDetected after exactly the 23
\* bytes of a wrong magic (position below 27); behind a right magic it reads
\* the version as a little-endian u32 and has consumed exactly 27 bytes.
C24_MagicRejection ==
    last.op = "load" =>
        /\ (Len(sink) >= MAGIC_LEN /\ Slice(sink, 0, MAGIC_LEN) # MAGIC) =>
               /\ last.res = "MagicNotDetected"
               /\ pos = 23
               /\ pos < 27
        /\ (Len(sink) >= 27 /\ Slice(sink, 0, MAGIC_LEN) = MAGIC) =>
               /\ last.res = "Ok"
               /\ pos = 27
               /\ last.version = sink[24] + 256 * sink[25] + 65536 * sink[26]
                                     + 16777216 * sink[27]

\* The input of tests::magic_ng: byte 0x1a of the magic is 0xff.
C24_Witness ==
    /\ last.op = "load"
    /\ last.res = "MagicNotDetected"
    /\ sink = DamagedMagic(22, 255) \o <<232, 28, 0, 0>>
    /\ pos = 23

\* ---------------------------------------------------------------------
\* The pull parser and its attribute reader, one call at a time.
\* sink is the input, pos the reader position, phase the parser state
\* (Healthy, Aborted or Finished), open_nodes the parser's stack of open
\* nodes, attrs_live tells whether the Attributes of the last NodeStart are
\* held, track is their cursor, tree holds the warning handler and the end of
\* the attribute region, last is the result of the last call.

\* Attributes in a node of an input, and calls made on one parser.
MaxLoadAttrs == 2
MaxLoadCalls == 4

\* ArrayAttributeHeader on the wire.
RawArrayHeader(n, encoding, bytelen) ==
    LEBytes(n, 4) \o LEBytes(to_u32(encoding), 4) \o LEBytes(bytelen, 4)

\* Attributes as they stand on the wire: type code, header, payload.
\* A boolean written as 'Y' and one written as 0x01; an i16; an i32 array of
\* 2 elements in 8 bytes; one that declares 3 elements in 8 bytes; a boolean
\* array with an element written as 0x00; a string and a binary of 2 bytes.
RawAttrs ==
    {<<type_code("Bool"), 89>>,
     <<type_code("Bool"), 1>>,
     <<type_code("I16"), 2, 1>>,
     <<type_code("ArrI32")>> \o RawArrayHeader(2, "Direct", 8)
         \o LEBytes(-2, 4) \o LEBytes(258, 4),
     <<type_code("ArrI32")>> \o RawArrayHeader(3, "Direct", 8)
         \o LEBytes(-2, 4) \o LEBytes(258, 4),
     <<type_code("ArrBool")>> \o RawArrayHeader(2, "Direct", 2) \o <<89, 0>>,
     <<type_code("String"), 2, 0, 0, 0, 72, 105>>,
     <<type_code("Binary"), 2, 0, 0, 0, 1, 2>>}

\* The name of the node of an input.
LoadName == <<65>>

\* Start of the attribute region of the node of an input.
AttrStart(v) == MAGIC_LEN + VERSION_LEN + HeaderWidth(v) + Len(LoadName)

\* A file with one node that holds the attributes attrs, closed by a footer.
LoadDoc(v, attrs, footer) ==
    LET w1 == new_node(WriterNew(v), v, LoadName).w
        w2 == write_all([w1 EXCEPT !.open_nodes[1].header.num_attributes = Len(attrs)],
                        Flatten(attrs))
        w3 == close_node(w2, v).w
    IN finalize_impl(w3, v, footer).w.sink

\* A file with one node with an empty name, no attribute and no child.
EmptyNameDoc(v, footer) ==
    LET w1 == new_node(WriterNew(v), v, <<>>).w
    IN finalize_impl(close_node(w1, v).w, v, footer).w.sink

\* A file with one node whose attributes are followed by an end marker,
\* though it has no child.
ExtraMarkerDoc(v, attrs, footer) ==
    LET w1 == new_node(WriterNew(v), v, LoadName).w
        w2 == write_all([w1 EXCEPT !.open_nodes[1].header.num_attributes = Len(attrs),
                                   !.open_nodes[1].has_child = TRUE],
                        Flatten(attrs))
        w3 == close_node(w2, v).w
    IN finalize_impl(w3, v, footer).w.sink

\* TypeLoader: the value is discarded; nothing of an array, a binary or a
\* string is read after its header.
load_next_impl_type(bytes, c, ty) ==
    IF ty \in SingleTypes
    THEN LET r == load_single(bytes, c, ty)
         IN IF r.res = "Ok" THEN [r EXCEPT !.value = [ty |-> ty]] ELSE r
    ELSE IF ty \in ArrayTypes
    THEN IF ~Readable(bytes, c.pos, 12) THEN AttrErr("Io", c)
         ELSE LET encoding == from_u32(ULE(Slice(bytes, c.pos + 4, 4)))
                  bytelen == ULE(Slice(bytes, c.pos + 8, 4))
                  start == c.pos + 12
              IN IF encoding = "InvalidArrayAttributeEncoding"
                 THEN AttrErr(encoding, [c EXCEPT !.pos = start])
                 ELSE [res |-> "Ok", value |-> [ty |-> ty], warn |-> FALSE,
                       c |-> [c EXCEPT !.pos = start, !.next = start + bytelen]]
    ELSE IF ~Readable(bytes, c.pos, 4) THEN AttrErr("Io", c)
         ELSE LET bytelen == ULE(Slice(bytes, c.pos, 4))
                  start == c.pos + 4
              IN [res |-> "Ok", value |-> [ty |-> ty], warn |-> FALSE,
                  c |-> [c EXCEPT !.pos = start, !.next = start + bytelen]]

Loaders == {"DirectLoader", "TypeLoader"}

\* Attributes::position
AttrPosition(start_pos, index) ==
    [component_byte_pos |-> start_pos, attribute_index |-> index]

NoPosition == [component_byte_pos |-> -1, attribute_index |-> -1]

\* The warning handler: one that accepts every warning, one that returns
\* every warning as an error.
Handlers == {"Accept", "Reject"}

\* Parser::ensure_continuable: the operation error of a terminal state.
ensure_continuable(status) ==
    IF status = "Aborted" THEN "AlreadyAborted"
    ELSE IF status = "Finished" THEN "AlreadyFinished"
    ELSE "Ok"

\* A load_next that starts to read whatever state the parser is in.
load_next_unchecked(status) == "Ok"

\* self.parser.ensure_continuable()? at the head of load_next and of
\* load_next_buffered.
load_next_continuable(status) == ensure_continuable(status)

\* The parser state after load_next failed in the given stage: set_aborted is
\* called for an error of read_next_attr_type, and by Parser::warn when the
\* handler returned the warning as an error; an error of load_next_impl is
\* handed to the caller as it is.
set_aborted_on(stage, status) ==
    IF stage \in {"type", "warn"} THEN "Aborted" ELSE status

\* Attributes::load_next(loader) on a parser in state status with cursor c:
\* the result, the error's position, the cursor and the parser state after.
LoadNextCall(bytes, c, total, status, loader, handler) ==
    LET start_pos == c.next
        attr_index == total - c.rest
        t == read_next_attr_type(bytes, c)
        r == IF loader = "TypeLoader" THEN load_next_impl_type(bytes, t.c, t.ty)
             ELSE load_next_impl(bytes, t.c, t.ty)
        out(res, stage, cc, st, value, ty) ==
            [res |-> res, stage |-> stage, c |-> cc, status |-> st, value |-> value,
             ty |-> ty, start_pos |-> start_pos, attr_index |-> attr_index,
             warnings |-> IF stage \in {"warn", "done"} /\ res # "None" /\ r.warn
                          THEN <<"IncorrectBooleanRepresentation">> ELSE <<>>,
             type_pos |-> IF stage = "continuable" \/ c.rest = 0 THEN -1
                          ELSE IF c.pos < c.next THEN skip_to(c.pos, c.next) ELSE c.pos,
             position |-> IF stage \in {"type", "warn"}
                          THEN AttrPosition(start_pos, attr_index) ELSE NoPosition]
    IN IF load_next_continuable(status) # "Ok"
       THEN out(load_next_continuable(status), "continuable", c, status, <<>>, "")
       ELSE IF t.res = "None" THEN out("None", "done", t.c, status, <<>>, "")
       ELSE IF t.res # "Ok"
       THEN out(t.res, "type", t.c, set_aborted_on("type", status), <<>>, "")
       ELSE IF r.res # "Ok"
       THEN out(r.res, "value", r.c, set_aborted_on("value", status), <<>>, t.ty)
       ELSE IF r.warn /\ handler = "Reject"
       THEN out("Warning", "warn", r.c,
                set_aborted_on("warn", status), <<>>, t.ty)
       ELSE out("Ok", "done", r.c, status, r.value, t.ty)

\* The lists of 1..MaxLoadAttrs attributes of an input.
LoadAttrLists == UNION {[1..k -> RawAttrs] : k \in 1..MaxLoadAttrs}

\* Inputs: files with one node, whole or cut inside the attribute region; a
\* file whose node has an empty name and one with an extra end marker; the
\* footer's unknown1 has the expected upper bits or not, in one byte or in
\* many, and its padding has the expected length or not.
LoadFooters ==
    {DefaultFooter, CustomFooter, ForcedFooter(3),
     [DefaultFooter EXCEPT !.unknown1 = Zeros(16)],
     [DefaultFooter EXCEPT !.unknown1[16] = 15],
     [ForcedFooter(3) EXCEPT !.unknown1[1] = 0]}

LoadInputs ==
    {LoadDoc(V7_4, attrs, DefaultFooter) : attrs \in LoadAttrLists}
    \cup UNION {{Slice(LoadDoc(V7_4, attrs, DefaultFooter), 0, len) :
                    len \in AttrStart(V7_4)..(AttrStart(V7_4) + Len(Flatten(attrs)) - 1)} :
                attrs \in LoadAttrLists}
    \cup {LoadDoc(V7_4, <<a>>, f) : a \in RawAttrs, f \in LoadFooters}
    \cup {EmptyNameDoc(V7_4, f) : f \in LoadFooters}
    \cup {ExtraMarkerDoc(V7_4, <<a>>, DefaultFooter) : a \in RawAttrs}

NoCursor == [next |-> 0, rest |-> 0, total |-> 0]

\* The parser after any::from_seekable_reader read the header, with the
\* warning handler installed by set_warning_handler.
InitLoad ==
    /\ fbx_version = V7_4
    /\ sink \in LoadInputs
    /\ pos = MAGIC_LEN + VERSION_LEN
    /\ open_nodes = <<>>
    /\ attrs_live = FALSE
    /\ phase = "Healthy"
    /\ track = NoCursor
    /\ calls = <<>>
    /\ last = [op |-> "new"]
    /\ used = [nodes |-> 0, attrs |-> 0, fails |-> 0]
    /\ \E h \in Handlers : tree = [handler |-> h, attrs_end |-> -1]

\* The parser record of next_event made of the variables.
ParserState ==
    [pos |-> pos, stack |-> open_nodes, events |-> <<>>, warnings |-> <<>>,
     attrs_end |-> tree.attrs_end, status |-> phase, footer |-> "None"]

\* The name of a warning (InvalidFooterPaddingLength carries two lengths).
WarningKind(w) == IF Len(w) = 3 THEN w[1] ELSE w

\* parser.next_event(): fails at once in a terminal state; a warning that
\* the handler returns as an error and every other error abort the parser.
\* A NodeStart hands out the Attributes of the node (Attributes::from_parser).
NextEventCall ==
    /\ Len(calls) < MaxLoadCalls
    /\ \E s1 \in {next_event(sink, fbx_version, ParserState)} :
       LET s0 == ParserState
           ev == s1.events[Len(s1.events)]
           rejected == tree.handler = "Reject" /\ s1.warnings # <<>>
           failed == s1.status \notin {"Healthy", "Finished"}
           res == IF ensure_continuable(phase) # "Ok" THEN ensure_continuable(phase)
                  ELSE IF rejected THEN "Warning"
                  ELSE IF failed THEN s1.status
                  ELSE "Ok"
           started == res = "Ok" /\ ev.kind = "NodeStart"
           presented == [i \in 1..(IF rejected THEN 1 ELSE Len(s1.warnings)) |->
                            WarningKind(s1.warnings[i])]
           footer_pos == IF s1.status = "Finished"
                         THEN (IF s0.attrs_end > s0.pos THEN s0.attrs_end ELSE s0.pos)
                                  + HeaderWidth(fbx_version)
                         ELSE -1
       IN IF ensure_continuable(phase) # "Ok"
          THEN /\ last' = [op |-> "next_event", res |-> res, p0 |-> pos, status0 |-> phase,
                           warnings |-> <<>>, event |-> "None", footer |-> "None",
                           footer_pos |-> -1]
               /\ calls' = Append(calls, [op |-> "next_event", res |-> res])
               /\ UNCHANGED <<pos, open_nodes, attrs_live, phase, track, tree>>
          ELSE /\ last' = [op |-> "next_event", res |-> res, p0 |-> pos, status0 |-> phase,
                           warnings |-> presented,
                           event |-> IF res = "Ok" THEN ev.kind ELSE "None",
                           footer |-> IF res = "Ok" THEN s1.footer ELSE "None",
                           footer_pos |-> footer_pos]
               /\ calls' = Append(calls, [op |-> "next_event", res |-> res])
               /\ pos' = s1.pos
               /\ phase' = IF res = "Ok" THEN s1.status ELSE "Aborted"
               /\ open_nodes' = IF res = "Ok" THEN s1.stack ELSE open_nodes
               /\ attrs_live' = started
               /\ track' = IF started
                           THEN [next |-> s1.pos, rest |-> ev.total_count,
                                 total |-> ev.total_count]
                           ELSE NoCursor
               /\ tree' = [tree EXCEPT !.attrs_end = IF res = "Ok" THEN s1.attrs_end ELSE -1]
    /\ UNCHANGED <<sink, fbx_version, used>>

\* attributes.load_next(loader)
LoadNextWith(loader) ==
    /\ attrs_live
    /\ Len(calls) < MaxLoadCalls
    /\ \E r \in {LoadNextCall(sink, [pos |-> pos, next |-> track.next, rest |-> track.rest],
                                track.total, phase, loader, tree.handler)} :
          /\ last' = [op |-> "load_next", loader |-> loader, res |-> r.res,
                      stage |-> r.stage, p0 |-> pos, next0 |-> track.next,
                      warnings |-> r.warnings,
                      status0 |-> phase, ty |-> r.ty, value |-> r.value,
                      start_pos |-> r.start_pos, attr_index |-> r.attr_index,
                      type_pos |-> r.type_pos, position |-> r.position]
          /\ calls' = Append(calls, [op |-> "load_next", res |-> r.res])
          /\ pos' = r.c.pos
          /\ track' = [track EXCEPT !.next = r.c.next, !.rest = r.c.rest]
          /\ phase' = r.status
    /\ UNCHANGED <<sink, open_nodes, fbx_version, attrs_live, used, tree>>

LoadNextDirect == LoadNextWith("DirectLoader")

LoadNextType == LoadNextWith("TypeLoader")

NextLoad ==
    \/ NextEventCall
    \/ LoadNextDirect
    \/ LoadNextType

SpecLoad == InitLoad /\ [][NextLoad]_vars

\* C25: when a loader left bytes of an array, a binary or a string unread,
\* the next load_next reads the next type code at next_start_offset, the
\* payload start plus the declared payload length.
C25_UnderConsumption ==
    (/\ last.op = "load_next"
     /\ last.status0 = "Healthy"
     /\ last.type_pos # -1
     /\ last.p0 < last.next0) =>
        last.type_pos = last.next0

\* C26: the attribute reader and the loader never consume bytes at or past
\* next_start_offset: after a load_next that succeeded the reader is at or
\* before it (for an array, payload start + bytelen, whatever the element
\* count says), and the next type code is read at exactly that offset.
C26_AttributeBoundary ==
    (last.op = "load_next" /\ last.status0 = "Healthy") =>
        /\ last.res = "Ok" => pos <= track.next
        /\ last.type_pos # -1 => last.type_pos = last.next0

\* The results of load_next that are data or I/O errors.
DataOrIoErrors ==
    {"Io", "InvalidAttributeTypeCode", "InvalidArrayAttributeEncoding",
     "NodeAttributeError", "BrokenCompression"}

\* C27: whenever load_next returns a data or I/O error, raised while it read
\* the type code, the header, the value or the elements, the parser is
\* Aborted afterwards.
C27_ErrorsAbort ==
    (last.op = "load_next" /\ last.res \in DataOrIoErrors) => phase = "Aborted"

\* C28: when load_next fails with an I/O error because the input ends inside
\* attribute k, the error carries a position whose attribute_index is k and
\* whose component_byte_pos is the start offset of attribute k.
C28_ErrorPosition ==
    (last.op = "load_next" /\ last.status0 = "Healthy" /\ last.res = "Io") =>
        last.position = AttrPosition(last.start_pos, last.attr_index)

\* A call made in a terminal state is refused and changes nothing.
RefusedInTerminalState ==
    phase \in {"Aborted", "Finished"} =>
        /\ last'.res = (IF phase = "Aborted" THEN "AlreadyAborted" ELSE "AlreadyFinished")
        /\ pos' = pos
        /\ phase' = phase
        /\ open_nodes' = open_nodes
        /\ track' = track

\* C29: in state Aborted every next_event and load_next call fails with
\* AlreadyAborted, in state Finished with AlreadyFinished; the failing call
\* reads nothing and leaves the parser state, the attribute cursor and the
\* reader position unchanged.
C29_TerminalAbsorbing == [][RefusedInTerminalState]_vars

\* A load_next refused on a parser that an error of the type code aborted,
\* after which next_event is refused as well.
C29_Witness ==
    /\ Len(calls) = 4
    /\ calls[2] = [op |-> "load_next", res |-> "Io"]
    /\ calls[3] = [op |-> "load_next", res |-> "AlreadyAborted"]
    /\ calls[4] = [op |-> "next_event", res |-> "AlreadyAborted"]
    /\ phase = "Aborted"
    /\ pos = last.p0


\* Some byte of the unknown1 field at footer_pos has upper 4 bits that
\* differ from the pattern F0 B0 A0 00 D0 C0 D0 60 B0 70 F0 80 10 F0 20 70.
HighNibbleDiffers(footer_pos) ==
    \E i \in 1..16 : (sink[footer_pos + i] \div 16) * 16
                        # <<240, 176, 160, 0, 208, 192, 208, 96,
                            176, 112, 240, 128, 16, 240, 32, 112>>[i]

\* How often a warning kind occurs among the warnings an operation raised.
CountKind(ws, kind) == Cardinality({i \in 1..Len(ws) : ws[i] = kind})

\* The byte of a boolean attribute whose type code is at type_pos.
BoolByte(type_pos) == sink[type_pos + 2]

MaxFrames == 3

\* The loaders of the crate: PrimitiveLoader<T>, ArrayLoader<Vec<T>>,
\* BinaryLoader, StringLoader, DirectLoader and TypeLoader.
LoaderKinds ==
    {[kind |-> "PrimitiveLoader", of |-> t] : t \in SingleTypes}
    \cup {[kind |-> "ArrayLoader", of |-> t] : t \in ArrayTypes}
    \cup {[kind |-> k, of |-> "any"] :
             k \in {"BinaryLoader", "StringLoader", "DirectLoader", "TypeLoader"}}

\* The name a loader or a default method gives to an attribute type.
TypeName(ty) ==
    CASE ty = "Bool" -> "boolean"
      [] ty = "I16" -> "i16"
      [] ty = "I32" -> "i32"
      [] ty = "I64" -> "i64"
      [] ty = "F32" -> "f32"
      [] ty = "F64" -> "f64"
      [] ty = "ArrBool" -> "boolean array"
      [] ty = "ArrI32" -> "i32 array"
      [] ty = "ArrI64" -> "i64 array"
      [] ty = "ArrF32" -> "f32 array"
      [] ty = "ArrF64" -> "f64 array"
      [] ty = "Binary" -> "binary"
      [] ty = "String" -> "string"

\* LoadAttribute::expecting of each loader
expecting(loader) ==
    CASE loader.kind = "PrimitiveLoader" ->
             "single " \o TypeName(loader.of)
      [] loader.kind = "ArrayLoader" -> TypeName(loader.of)
      [] loader.kind = "BinaryLoader" -> "binary"
      [] loader.kind = "StringLoader" -> "string"
      [] OTHER -> "any type"

\* The attribute types whose load method the loader implements itself.
Overridden(loader) ==
    CASE loader.kind \in {"PrimitiveLoader", "ArrayLoader"} -> {loader.of}
      [] loader.kind = "BinaryLoader" -> {"Binary"}
      [] loader.kind = "StringLoader" -> {"String"}
      [] OTHER -> AttributeTypes

\* The provided method of the trait for attribute type ty: an error that
\* names the expected and the actual type, except load_binary and
\* load_string, whose body awaits the same method of the same loader.
default_load(loader, ty) ==
    IF ty \in {"Binary", "String"}
    THEN [res |-> "Await", expected |-> "", actual |-> ""]
    ELSE [res |-> "UnexpectedAttribute", expected |-> expecting(loader),
          actual |-> TypeName(ty)]

\* A loader and the attribute type whose load method load_next_impl is
\* about to call on it.
InitDefault ==
    /\ \E l \in LoaderKinds, t \in AttributeTypes : track = [loader |-> l, ty |-> t]
    /\ phase = "ready"
    /\ pos = 0
    /\ sink = <<>>
    /\ open_nodes = <<>>
    /\ fbx_version = V7_4
    /\ attrs_live = FALSE
    /\ calls = <<>>
    /\ last = [op |-> "new", res |-> "None", expected |-> "", actual |-> ""]
    /\ used = [nodes |-> 0, attrs |-> 0, fails |-> 0]
    /\ tree = <<>>

DefaultUnchanged ==
    UNCHANGED <<sink, open_nodes, fbx_version, attrs_live, calls, used, tree, track>>

\* loader.load_*(..).await: the loader's own method returns its output; the
\* provided method returns its error or starts to poll the awaited future.
CallLoad ==
    /\ phase = "ready"
    /\ \E r \in {default_load(track.loader, track.ty)} :
          IF track.ty \in Overridden(track.loader)
          THEN /\ phase' = "returned"
               /\ pos' = 0
               /\ last' = [op |-> "load", res |-> "Ok", expected |-> "", actual |-> ""]
          ELSE IF r.res = "Await"
          THEN /\ phase' = "polling"
               /\ pos' = 1
               /\ last' = [op |-> "load", res |-> "Pending", expected |-> "", actual |-> ""]
          ELSE /\ phase' = "returned"
               /\ pos' = 0
               /\ last' = [op |-> "load", res |-> r.res, expected |-> r.expected,
                           actual |-> r.actual]
    /\ DefaultUnchanged

\* The poll of the provided load_binary / load_string creates the future of
\* the same method and polls it, one frame deeper.
PollAwaited ==
    /\ phase = "polling"
    /\ pos < MaxFrames
    /\ default_load(track.loader, track.ty).res = "Await"
    /\ pos' = pos + 1
    /\ UNCHANGED <<phase, last>>
    /\ DefaultUnchanged

\* No frame is left: the thread overflows its stack and the process aborts.
StackExhausted ==
    /\ phase = "polling"
    /\ pos = MaxFrames
    /\ phase' = "aborted"
    /\ last' = [op |-> "load", res |-> "StackOverflow", expected |-> "", actual |-> ""]
    /\ UNCHANGED pos
    /\ DefaultUnchanged

NextDefault ==
    \/ CallLoad
    \/ PollAwaited
    \/ StackExhausted

SpecDefault == InitDefault /\ [][NextDefault]_vars

\* C31: when the load method of an attribute type that the loader does not
\* implement itself has ended, it has returned UnexpectedAttribute with the
\* loader's expecting() and the name of the actual type.
C31_DefaultUnexpected ==
    (phase \in {"returned", "aborted"} /\ track.ty \notin Overridden(track.loader)) =>
        /\ last.res = "UnexpectedAttribute"
        /\ last.expected = expecting(track.loader)
        /\ last.actual = TypeName(track.ty)


\* ---------------------------------------------------------------------------
\* Element streams of array attributes
\* ---------------------------------------------------------------------------

\* Declared element count of an array, items a loader takes from a stream,
\* and Pending results of the source during one attribute.
MaxElems == 2
MaxItems == 4
MaxStreamPendings == 2

\* What a loader does with the element stream it is given: try_collect
\* (DirectLoader, ArrayLoader) stops at the first Err item and returns it;
\* TypeLoader does not poll; a loader of the caller may skip Err items and
\* poll until None, or take the declared number of items.
StreamLoaders == {"try_collect", "TypeLoader", "skip_errors", "take_len"}

StreamElemTypes == {"bool", "i32", "i64", "f32", "f64"}

\* Payloads of a direct-encoded array: numbered bytes for the numeric types,
\* every mix of 'T', 'Y', 0x00 and 0x01 for booleans; the source may end
\* inside the payload.
StreamSources(et, count) ==
    IF et = "bool"
    THEN UNION {[1..len -> {84, 89, 0, 1}] : len \in 0..count}
    ELSE {[i \in 1..len |-> i] : len \in 0..(count * ElemSize(et))}

\* ArrayAttributeValues::new / BooleanArrayAttributeValues::new
NewStream(loader, et, count) ==
    [loader |-> loader, et |-> et, count |-> count, rest_elements |-> count,
     has_error |-> FALSE, has_incorrect_boolean_value |-> FALSE]

InitStream ==
    /\ \E l \in StreamLoaders, et \in StreamElemTypes, count \in 0..MaxElems :
          /\ track = NewStream(l, et, count)
          /\ sink \in StreamSources(et, count)
    /\ pos = 0
    /\ tree = <<>>
    /\ calls = <<>>
    /\ phase = "loader"
    /\ last = [op |-> "new", res |-> "None", warnings |-> <<>>, value |-> <<>>]
    /\ used = [nodes |-> 0, attrs |-> 0, fails |-> 0]
    /\ open_nodes = <<>>
    /\ attrs_live = FALSE
    /\ fbx_version = V7_4

\* The loader polls the stream again.
LoaderPolls(loader, count, items) ==
    LET n == Len(items)
        ended == IF n = 0 THEN FALSE ELSE items[n].kind = "None"
    IN CASE loader = "try_collect" -> IF n = 0 THEN TRUE
                                      ELSE items[n].kind = "Ok"
         [] loader = "TypeLoader" -> FALSE
         [] loader = "skip_errors" -> ~ended
         [] loader = "take_len" -> ~ended /\ n < count

\* The Ok values among the items.
RECURSIVE OkValues(_)
OkValues(items) ==
    IF items = <<>> THEN <<>>
    ELSE (IF Head(items).kind = "Ok" THEN <<Head(items).v>> ELSE <<>>)
             \o OkValues(Tail(items))

\* The result of the loader's load_seq_* once it polls no more.
LoaderResult(loader, items) ==
    LET n == Len(items)
    IN IF loader = "try_collect" /\ n > 0 /\ items[n].kind = "Err"
       THEN [res |-> items[n].v, value |-> <<>>]
       ELSE [res |-> "Ok",
             value |-> IF loader = "TypeLoader" THEN <<>> ELSE OkValues(items)]

\* poll_next: None when no element is left, otherwise a new future of the
\* element over the reader is created and polled.
StreamPollNext ==
    /\ phase = "loader"
    /\ Len(calls) < MaxItems
    /\ LoaderPolls(track.loader, track.count, calls)
    /\ IF track.rest_elements = 0
       THEN /\ calls' = Append(calls, [kind |-> "None", v |-> <<>>])
            /\ UNCHANGED <<phase, tree>>
       ELSE /\ tree' = [read |-> 0, buffer |-> Zeros(ElemSize(track.et))]
            /\ phase' = "poll"
            /\ UNCHANGED calls
    /\ UNCHANGED <<sink, pos, track, last, used, open_nodes, attrs_live, fbx_version>>

\* The item of a completed element read, and the stream after it.
ElementItem(et, buffer) == [kind |-> "Ok", v |-> FromBytes(et, buffer)]

StreamAfterOk(st, buffer) ==
    [st EXCEPT !.rest_elements = @ - 1,
               !.has_incorrect_boolean_value =
                   @ \/ (st.et = "bool" /\ IncorrectBoolean(buffer[1]))]

\* One poll_read of the element future inside poll_next: the source delivers
\* n bytes (0 at its end).
StreamRead ==
    /\ phase = "poll"
    /\ \E n \in 0..(ElemSize(track.et) - tree.read) :
        /\ IF pos >= Len(sink) THEN n = 0 ELSE n >= 1 /\ pos + n <= Len(sink)
        /\ \E buffer \in {poll_read_into(tree.buffer, tree.read, Slice(sink, pos, n))},
              res \in {after_read(tree.read, n, ElemSize(track.et))} :
              /\ pos' = pos + n
              /\ IF res = "Running"
                 THEN /\ tree' = [read |-> tree.read + n, buffer |-> buffer]
                      /\ UNCHANGED <<phase, calls, track>>
                 ELSE /\ tree' = <<>>
                      /\ phase' = "loader"
                      /\ IF res = "Ok"
                         THEN /\ calls' = Append(calls, ElementItem(track.et, buffer))
                              /\ track' = StreamAfterOk(track, buffer)
                         ELSE /\ calls' = Append(calls, [kind |-> "Err", v |-> "Io"])
                              /\ track' = [track EXCEPT !.has_error = TRUE]
    /\ UNCHANGED <<sink, last, used, open_nodes, attrs_live, fbx_version>>

\* The source returns Pending: ready! returns Pending out of poll_next and
\* the element future, a temporary of poll_next, is dropped with its buffer.
StreamPending ==
    /\ phase = "poll"
    /\ used.fails < MaxStreamPendings
    /\ tree' = <<>>
    /\ phase' = "loader"
    /\ used' = [used EXCEPT !.fails = @ + 1]
    /\ UNCHANGED <<sink, pos, track, calls, last, open_nodes, attrs_live, fbx_version>>

\* load_next_impl after loader.load_seq_*(&mut iter, count).await? with a
\* handler that accepts warnings.
load_seq_outcome(st, lr) ==
    IF lr.res # "Ok" THEN [res |-> lr.res, warnings |-> <<>>, value |-> <<>>]
    ELSE LET ws == IF st.et = "bool" /\ st.has_incorrect_boolean_value
                   THEN <<"IncorrectBooleanRepresentation">> ELSE <<>>
         IN IF st.has_error
            THEN [res |-> "NodeAttributeError", warnings |-> ws, value |-> <<>>]
            ELSE [res |-> "Ok", warnings |-> ws, value |-> lr.value]

\* The loader returns and load_next_impl ends.
LoaderReturns ==
    /\ phase = "loader"
    /\ ~LoaderPolls(track.loader, track.count, calls)
    /\ \E r \in {load_seq_outcome(track, LoaderResult(track.loader, calls))} :
          last' = [op |-> "load_next", res |-> r.res, warnings |-> r.warnings,
                   value |-> r.value]
    /\ phase' = "ended"
    /\ UNCHANGED <<sink, pos, track, tree, calls, used, open_nodes, attrs_live, fbx_version>>

NextStream ==
    \/ StreamPollNext
    \/ StreamRead
    \/ StreamPending
    \/ LoaderReturns

SpecStream == InitStream /\ [][NextStream]_vars

\* C32: when load_next has ended and an element failed to decode (the loader
\* got an Err item), load_next failed with NodeAttributeError.
C32_ElementErrors ==
    (phase = "ended" /\ \E i \in 1..Len(calls) : calls[i].kind = "Err") =>
        last.res = "NodeAttributeError"


\* ---------------------------------------------------------------------------
\* Boolean bytes
\* ---------------------------------------------------------------------------

\* An encoding of booleans as 'T' for true and 'F' for false.
into_bytes_tf(ty, v) ==
    IF ty = "bool" THEN <<IF v THEN 84 ELSE 70>> ELSE into_bytes(ty, v)

\* IntoBytes of the writer, as the attribute writers call it.
encode_element(ty, v) == into_bytes(ty, v)

InitBool ==
    /\ sink = <<>>
    /\ pos = 0
    /\ phase = "start"
    /\ track = <<>>
    /\ tree = <<>>
    /\ calls = <<>>
    /\ last = [op |-> "new"]
    /\ used = [nodes |-> 0, attrs |-> 0, fails |-> 0]
    /\ open_nodes = <<>>
    /\ attrs_live = FALSE
    /\ fbx_version = V7_4

BoolUnchanged == UNCHANGED <<pos, tree, calls, used, open_nodes, attrs_live, fbx_version>>

\* The source holds any byte where a boolean is read.
SourceByte ==
    /\ phase = "start"
    /\ \E b \in 0..255 : sink' = <<b>>
    /\ phase' = "raw"
    /\ track' = [origin |-> "source", v |-> FALSE]
    /\ UNCHANGED last
    /\ BoolUnchanged

\* The writer encodes a boolean (append_bool, an element of append_arr_bool).
WriteBool ==
    /\ phase = "start"
    /\ \E v \in BOOLEAN :
          /\ sink' = encode_element("bool", v)
          /\ track' = [origin |-> "writer", v |-> v]
    /\ phase' = "raw"
    /\ UNCHANGED last
    /\ BoolUnchanged

\* load_next_impl reads the byte as a single boolean attribute.
DecodeSingle ==
    /\ phase = "raw"
    /\ \E r \in {load_single(sink, AttrCursor(0, 1), "Bool")} :
          last' = [op |-> "single", res |-> r.res, value |-> r.value.val, warn |-> r.warn]
    /\ phase' = "decoded"
    /\ UNCHANGED <<sink, track>>
    /\ BoolUnchanged

\* BooleanArrayAttributeValues::poll_next reads the byte as an element.
DecodeElement ==
    /\ phase = "raw"
    /\ \E item \in {ElementItem("bool", sink)},
          st \in {StreamAfterOk(NewStream("try_collect", "bool", 1), sink)} :
          last' = [op |-> "element", res |-> item.kind, value |-> item.v,
                   warn |-> st.has_incorrect_boolean_value]
    /\ phase' = "decoded"
    /\ UNCHANGED <<sink, track>>
    /\ BoolUnchanged

NextBool ==
    \/ SourceByte
    \/ WriteBool
    \/ DecodeSingle
    \/ DecodeElement

SpecBool == InitBool /\ [][NextBool]_vars

\* C33: a byte decoded as a boolean, single or array element, gives the
\* value of its lowest bit; a single boolean warns exactly when the byte is
\* neither 'Y' (0x59) nor 'T' (0x54); a boolean encoded by the writer is
\* decoded to the same value without a warning.
C33_BooleanDecoding ==
    phase = "decoded" =>
        /\ last.res = "Ok"
        /\ last.value = (sink[1] % 2 = 1)
        /\ last.op = "single" => (last.warn <=> sink[1] \notin {89, 84})
        /\ track.origin = "writer" => (last.value = track.v /\ ~last.warn)

\* The writer's true was decoded as a single boolean, and as true.
C33_Witness ==
    /\ phase = "decoded"
    /\ track = [origin |-> "writer", v |-> TRUE]
    /\ last.op = "single"
    /\ sink = <<89>>
    /\ last.value = TRUE
    /\ ~last.warn


\* C34: when load_next of a boolean array whose payload is whole has ended,
\* IncorrectBooleanRepresentation was raised once if some element byte is
\* neither 'Y' nor 'T', and not at all otherwise, whatever the loader.
C34_BooleanArrayWarning ==
    (phase = "ended" /\ last.op = "load_next" /\ track.et = "bool"
        /\ Len(sink) = track.count) =>
        Len(last.warnings) =
            IF \E i \in 1..track.count : sink[i] \notin {89, 84} THEN 1 ELSE 0


\* C36: the k-th element an i32/i64/f32/f64 stream yields is the decoding of
\* the k-th group of sizeof(T) bytes of the payload, however the source
\* splits its reads and wherever it returns Pending.
C36_ElementsUnderSuspension ==
    track.et \in {"i32", "i64", "f32", "f64"} =>
        \A k \in 1..Len(OkValues(calls)) :
            OkValues(calls)[k] =
                FromBytes(track.et,
                          Slice(sink, (k - 1) * ElemSize(track.et), ElemSize(track.et)))


\* The items of a stream before its None.
SomeItems(items) == {i \in 1..Len(items) : items[i].kind # "None"}

\* C38: an element stream yields at most as many items as the array declares
\* elements, whatever the source does.
C38_StreamTermination == Cardinality(SomeItems(calls)) <= track.count


\* ---------------------------------------------------------------------------
\* Attribute streams (iter / into_iter of Attributes)
\* ---------------------------------------------------------------------------

\* Loaders given to a stream, attributes of the node, and Pending results of
\* the source while the stream is polled.
MaxIterLoaders == 2
MaxIterAttrs == 2
MaxIterPendings == 2

IterLoaders ==
    {[kind |-> "DirectLoader", of |-> "any"], [kind |-> "TypeLoader", of |-> "any"],
     [kind |-> "PrimitiveLoader", of |-> "I16"]}

\* Single-valued attributes; no byte of a value is a type code.
IterAttrs == {[ty |-> "I16", val |-> 258], [ty |-> "I32", val |-> -2]}

\* The wire form of an attribute: type code, then the value.
AttrWire(a) == <<type_code(a.ty)>> \o into_bytes(ElemTypeOf(a.ty), a.val)

RECURSIVE AttrsWire(_)
AttrsWire(as) == IF as = <<>> THEN <<>> ELSE AttrWire(Head(as)) \o AttrsWire(Tail(as))

\* The item a loader makes of a single value: its own load method, or the
\* provided one.
LoaderItem(loader, ty, val) ==
    IF ty \in Overridden(loader)
    THEN [kind |-> "Ok", ty |-> ty, val |-> IF loader.kind = "TypeLoader" THEN 0 ELSE val]
    ELSE [kind |-> "Err", ty |-> default_load(loader, ty).res, val |-> 0]

ErrItem(e) == [kind |-> "Err", ty |-> e, val |-> 0]

NoneItem == [kind |-> "None", ty |-> "", val |-> 0]

InitIter ==
    /\ \E ls \in UNION {[1..k -> IterLoaders] : k \in 0..MaxIterLoaders},
          as \in UNION {[1..k -> IterAttrs] : k \in 0..MaxIterAttrs} :
          /\ tree = [loaders |-> ls, attrs |-> as]
          /\ sink = AttrsWire(as)
          /\ track = [next |-> 0, rest |-> Len(as), total |-> Len(as)]
    /\ pos = 0
    /\ phase = "Healthy"
    /\ open_nodes = <<>>
    /\ calls = <<>>
    /\ last = [op |-> "new"]
    /\ used = [nodes |-> 0, attrs |-> 0, fails |-> 0]
    /\ attrs_live = TRUE
    /\ fbx_version = V7_4

\* poll_next: loaders.next(); without a loader the item is None; with one the
\* future of load_next(loader) is created and polled. used.nodes counts the
\* loaders taken, open_nodes holds the future while it is polled.
IterPollNext ==
    /\ open_nodes = <<>>
    /\ Len(calls) < MaxIterLoaders + 1
    /\ IF calls = <<>> THEN TRUE ELSE calls[Len(calls)].kind # "None"
    /\ IF used.nodes = Len(tree.loaders)
       THEN /\ calls' = Append(calls, NoneItem)
            /\ UNCHANGED <<open_nodes, used, track>>
       ELSE \E loader \in {tree.loaders[used.nodes + 1]} :
            /\ used' = [used EXCEPT !.nodes = @ + 1]
            /\ IF load_next_continuable(phase) # "Ok"
               THEN /\ calls' = Append(calls, ErrItem(load_next_continuable(phase)))
                    /\ UNCHANGED <<open_nodes, track>>
               ELSE IF track.rest = 0
               THEN /\ calls' = Append(calls, NoneItem)
                    /\ UNCHANGED <<open_nodes, track>>
               ELSE /\ open_nodes' = <<[loader |-> loader, stage |-> "type", ty |-> "",
                                       read |-> 0, buffer |-> <<>>]>>
                    /\ UNCHANGED <<calls, track>>
    /\ UNCHANGED <<sink, pos, phase, last, tree, attrs_live, fbx_version>>

\* read_next_attr_type inside the polled future: the type code is read and
\* rest_count decremented; an error aborts the parser.
IterReadType ==
    /\ open_nodes # <<>>
    /\ open_nodes[1].stage = "type"
    /\ \E t \in {read_next_attr_type(sink, [pos |-> pos, next |-> track.next,
                                           rest |-> track.rest])} :
          IF t.res = "Ok"
          THEN /\ open_nodes' = <<[open_nodes[1] EXCEPT
                                     !.stage = "value", !.ty = t.ty,
                                     !.buffer = Zeros(ElemSize(ElemTypeOf(t.ty)))]>>
               /\ pos' = t.c.pos
               /\ track' = [track EXCEPT !.rest = t.c.rest]
               /\ UNCHANGED <<calls, phase>>
          ELSE /\ open_nodes' = <<>>
               /\ pos' = t.c.pos
               /\ calls' = Append(calls, ErrItem(t.res))
               /\ phase' = set_aborted_on("type", phase)
               /\ UNCHANGED track
    /\ UNCHANGED <<sink, last, used, tree, attrs_live, fbx_version>>

\* One poll_read of the value inside the polled future; the completed value
\* is given to the loader and the item is the loader's result.
IterReadValue ==
    /\ open_nodes # <<>>
    /\ open_nodes[1].stage = "value"
    /\ \E f \in {open_nodes[1]} :
       \E n \in 0..(Len(f.buffer) - f.read) :
        /\ IF pos >= Len(sink) THEN n = 0 ELSE n >= 1 /\ pos + n <= Len(sink)
        /\ \E buffer \in {poll_read_into(f.buffer, f.read, Slice(sink, pos, n))},
              res \in {after_read(f.read, n, Len(f.buffer))} :
              /\ pos' = pos + n
              /\ IF res = "Running"
                 THEN /\ open_nodes' = <<[f EXCEPT !.read = @ + n, !.buffer = buffer]>>
                      /\ UNCHANGED <<calls, track>>
                 ELSE /\ open_nodes' = <<>>
                      /\ IF res = "Ok"
                         THEN /\ calls' = Append(calls,
                                     LoaderItem(f.loader, f.ty,
                                                FromBytes(ElemTypeOf(f.ty), buffer)))
                              /\ track' = [track EXCEPT !.next = pos + n]
                         ELSE /\ calls' = Append(calls, ErrItem("Io"))
                              /\ UNCHANGED track
    /\ UNCHANGED <<sink, phase, last, used, tree, attrs_live, fbx_version>>

\* The source returns Pending: ready! returns Pending out of poll_next, and
\* the boxed future, a temporary of poll_next, is dropped with its loader.
IterPending ==
    /\ open_nodes # <<>>
    /\ used.fails < MaxIterPendings
    /\ open_nodes' = <<>>
    /\ used' = [used EXCEPT !.fails = @ + 1]
    /\ UNCHANGED <<sink, pos, phase, track, calls, last, tree, attrs_live, fbx_version>>

NextIter ==
    \/ IterPollNext
    \/ IterReadType
    \/ IterReadValue
    \/ IterPending

SpecIter == InitIter /\ [][NextIter]_vars

\* The items of the stream before its None.
YieldedItems == SelectSeq(calls, LAMBDA it : it.kind # "None")

\* C35: between two polls, the k-th item yielded is the k-th loader applied
\* to the k-th attribute, every loader taken from the iterator has yielded
\* an item (but the one that met the end of the attributes), and the bytes
\* consumed are those of the attributes yielded.
C35_StreamUnderSuspension ==
    open_nodes = <<>> =>
        /\ \A k \in 1..Len(YieldedItems) :
              /\ k <= Len(tree.attrs)
              /\ YieldedItems[k]
                     = LoaderItem(tree.loaders[k], tree.attrs[k].ty, tree.attrs[k].val)
        /\ used.nodes \in {Len(YieldedItems), Len(YieldedItems) + 1}
        /\ used.nodes = Len(YieldedItems) + 1 => Len(YieldedItems) = Len(tree.attrs)
        /\ pos = Len(AttrsWire(SubSeq(tree.attrs, 1, Len(YieldedItems))))


\* ---------------------------------------------------------------------------
\* The calls of write_tree
\* ---------------------------------------------------------------------------

\* Nodes of a walked tree.
MaxWalkNodes == 3

WalkAttrLists ==
    {<<>>, <<[ty |-> "I32", val |-> Sample("i32")[1]]>>,
     <<[ty |-> "I32", val |-> Sample("i32")[2]], [ty |-> "Bool", val |-> TRUE]>>}

\* Trees in pre-order with the depth of each node; the i-th node is named by
\* the i-th capital letter.
WalkTrees ==
    UNION {{t \in [1..n -> [attrs : WalkAttrLists, depth : 1..MaxWalkNodes,
                            name : {<<65>>, <<66>>, <<67>>, <<68>>}]] :
               \A i \in 1..n :
                   /\ t[i].name = <<64 + ((i - 1) % 4) + 1>>
                   /\ t[i].depth <= (IF i = 1 THEN 1 ELSE t[i - 1].depth + 1)} :
           n \in 0..MaxWalkNodes}

\* A call of write_tree: the method, the node it is made for and, for an
\* append, the index of the attribute.
WalkCall(op, node, k) == [op |-> op, node |-> node, k |-> k]

RECURSIVE WalkNode(_, _)
RECURSIVE WalkNext(_, _, _)

\* The writer calls of write_tree's loop 'all from the node current on.
WalkNode(t, current) ==
    <<WalkCall("new_node", current, 0)>>
        \o [k \in 1..Len(t[current].attrs) |-> WalkCall("append", current, k)]
        \o WalkNext(t, current, TRUE)

\* The writer calls of write_tree's loop 'next.
WalkNext(t, current, visit_child) ==
    IF visit_child /\ first_child(t, current) # 0
    THEN WalkNode(t, first_child(t, current))
    ELSE <<WalkCall("close_node", current, 0)>>
             \o IF next_sibling(t, current) # 0
                THEN WalkNode(t, next_sibling(t, current))
                ELSE IF parent(t, current) = 0 THEN <<>>
                ELSE WalkNext(t, parent(t, current), FALSE)

\* The writer calls of write_tree in call order.
write_tree_calls(t) == IF first_child(t, 0) = 0 THEN <<>> ELSE WalkNode(t, first_child(t, 0))

\* The writer after a sequence of calls, each of them successful: [w, res]
RECURSIVE ApplyWalk(_, _, _, _)
ApplyWalk(w, v, t, cs) ==
    IF cs = <<>> THEN [w |-> w, res |-> "Ok"]
    ELSE LET c == Head(cs)
             r == IF c.op = "new_node" THEN new_node(w, v, t[c.node].name)
                  ELSE IF c.op = "close_node" THEN close_node(w, v)
                  ELSE append(w, TreeAttrCall(t[c.node].attrs[c.k]))
         IN IF r.res # "Ok" THEN r ELSE ApplyWalk(r.w, v, t, Tail(cs))

InitWalk == \E v \in {V7_4, V7_5} : \E t \in WalkTrees : InitWith(v, t)

\* writer.new_node(name) by the caller before the tree is written.
WalkOpenOuter ==
    /\ phase = "writing"
    /\ calls = <<>>
    /\ open_nodes = <<>>
    /\ \E r \in {new_node(W, fbx_version, <<79>>)} :
          /\ r.res = "Ok"
          /\ SetW(r.w)
          /\ last' = [op |-> "new_node", res |-> r.res, before |-> W]
    /\ attrs_live' = TRUE
    /\ UNCHANGED <<fbx_version, phase, track, calls, used, tree>>

\* writer.write_tree(tree)
WalkTree ==
    /\ phase = "writing"
    /\ calls = <<>>
    /\ \E r \in {write_tree(W, fbx_version, tree)} :
          /\ SetW(r.w)
          /\ calls' = <<[op |-> "write_tree", res |-> r.res]>>
          /\ last' = [op |-> "write_tree", res |-> r.res, before |-> W]
    /\ attrs_live' = FALSE
    /\ UNCHANGED <<fbx_version, phase, track, used, tree>>

NextWalk ==
    \/ WalkOpenOuter
    \/ WalkTree
    \/ Finalize

SpecWalk == InitWalk /\ [][NextWalk]_vars

\* The node of the given depth on the path from the root to the i-th node.
PathNode(t, i, depth) ==
    CHOOSE j \in 1..i : /\ t[j].depth = depth
                        /\ \A k \in (j + 1)..i : t[k].depth # depth

\* The calls of a depth-first pre-order walk: each node is opened, given its
\* attributes in stored order, and closed, followed by the ancestors that
\* end with it from the deepest on, before the next node in pre-order is
\* opened.
RECURSIVE PreOrderCalls(_, _)
PreOrderCalls(t, i) ==
    IF i > Len(t) THEN <<>>
    ELSE LET following == IF i = Len(t) THEN 1 ELSE t[i + 1].depth
         IN <<[op |-> "new_node", node |-> i, k |-> 0]>>
                \o [k \in 1..Len(t[i].attrs) |-> [op |-> "append", node |-> i, k |-> k]]
                \o [k \in 1..(t[i].depth - following + 1) |->
                       [op |-> "close_node", node |-> PathNode(t, i, t[i].depth - k + 1),
                        k |-> 0]]
                \o PreOrderCalls(t, i + 1)

\* The number of calls of a method made for a node.
CallsFor(cs, op, node) == Cardinality({i \in 1..Len(cs) : cs[i].op = op /\ cs[i].node = node})

\* C37: write_tree makes the calls of a depth-first pre-order walk, one
\* new_node and one close_node per node, the attributes in stored order; the
\* writer after it is the writer after these calls, with the open-node depth
\* it had before; a root without children writes nothing; and a finalize
\* that follows a write_tree at depth 0 succeeds.
C37_WriteTreeTraversal ==
    /\ last.op = "write_tree" =>
          /\ last.res = "Ok"
          /\ write_tree_calls(tree) = PreOrderCalls(tree, 1)
          /\ \A i \in 1..Len(tree) :
                /\ CallsFor(write_tree_calls(tree), "new_node", i) = 1
                /\ CallsFor(write_tree_calls(tree), "close_node", i) = 1
          /\ W = ApplyWalk(last.before, fbx_version, tree, write_tree_calls(tree)).w
          /\ Len(open_nodes) = Len(last.before.open_nodes)
          /\ tree = <<>> => W = last.before
    /\ (last.op = "finalize" /\ calls # <<>> /\ last.open = 0) => last.res = "Ok"

C37_Witness ==
    /\ last.op = "write_tree"
    /\ Len(tree) = 3
    /\ tree[2].depth = 2
    /\ tree[3].depth = 1
    /\ Len(tree[2].attrs) = 2
    /\ Len(last.before.open_nodes) = 1


\* A failed new_node that leaves the sink and the open nodes as they were.
FailedNewNodeUnchanged == NewNodeTooLong => UNCHANGED <<sink, pos, open_nodes>>

\* C39: a new_node that fails with NodeNameTooLong writes nothing and leaves
\* the stack of open nodes unchanged, the has_child flag, the
\* attributes-finalized flag and the header of the current node included.
C39_FailedNewNode == [][FailedNewNodeUnchanged]_vars


\* After a successful operation the sink position is the end of the bytes
\* written.
PositionAtEnd == (phase = "writing" /\ (last.op = "new" \/ last.res = "Ok")) => pos = Len(sink)

\* The offsets of the sink at which a successful operation changed a byte
\* written before it.
Overwritten == {i \in 1..Len(sink) : sink'[i] # sink[i]}

\* A successful operation keeps the bytes written before it, but for
\* close_node, which overwrites bytes of the header of the node it closes.
KeepsEarlierBytes ==
    (phase' = "writing" /\ last'.res = "Ok") =>
        /\ Len(sink') >= Len(sink)
        /\ IF last'.op = "close_node"
           THEN \A i \in Overwritten :
                   /\ i > last'.header_pos
                   /\ i <= last'.header_pos + HeaderWidth(fbx_version)
           ELSE Overwritten = {}

\* C40: after Writer::new and after every successful new_node, append and
\* close_node the sink position is the end of all bytes written so far, and
\* no operation overwrites earlier bytes other than the header placeholder
\* of the node that close_node closes.
C40_AppendPosition == [](PositionAtEnd) /\ [][KeepsEarlierBytes]_vars

C40_Witness ==
    /\ last.op = "close_node"
    /\ last.res = "Ok"
    /\ open_nodes # <<>>
    /\ \E i \in 1..Len(calls) : calls[i].op = "append" /\ calls[i].call.enc = "Zlib"
    /\ \E i \in 1..Len(calls) :
          calls[i].op = "append" /\ calls[i].call.m = "append_string_direct"
    /\ pos = Len(sink)

====
